---------------------------- MODULE Spec2Model ----------------------------
(***************************************************************************)
(* State-machine model of the fletaio/core node: the formulator rank table *)
(* (consensus.Consensus), the block pipeline of kernel.Kernel (Validate,   *)
(* Process) and the rows of kernel.Store they read and write.              *)
(***************************************************************************)
EXTENDS Integers, Sequences, FiniteSets, TLC

(***************************************************************************)
(* Bounds of the model                                                     *)
(***************************************************************************)
\* Consensus.ProcessContext is driven until the consensus height reached
\* MaxBlocks
MaxBlocks == 3
\* the kernel is handed chain data until the consensus height reached
\* MaxCommits; headers carry heights up to MaxCommits
MaxCommits == 2

(***************************************************************************)
(* Value domains                                                           *)
(***************************************************************************)
\* common.Address values of the formulation accounts
Addresses == {1, 2}
\* common.PublicHash values of the formulators' keys
PubKeys == {1, 2}
\* the nil *Rank of rankMap, the absent account row, and what RecoverPubkey
\* yields for a signature that belongs to nobody
NoKey == 0
\* hash.Hash256 values.  DoubleHash is collision free: the genesis hash, the
\* hash of every address and the hash of every header are different values,
\* in an arbitrary order.
GenesisHash == 0
DoubleHash(addr) == 20 * addr
HeaderHashes == {20 * k - 10 : k \in 1..MaxBlocks}
\* the hash of a height the store has no row for; no header has it
NoHash == -1
\* block heights; 0 is the genesis
Heights == 0..MaxCommits
\* Header.Version_ values
Versions == {0, 1, 2}
\* Config.ObserverKeyMap: the public hashes of the five observers
ObserverKeyMap == {11, 12, 13, 14, 15}

VARIABLES
    candidates,   \* Consensus.candidates: the rank table, head first
    rankMap,      \* Consensus.rankMap: address -> PublicHash of its rank, or NoKey
    height,       \* Consensus.height
    accounts,     \* Store rows 0x02,0x00: address -> KeyHash of the formulation account, or NoKey
    hashed,       \* the header hashes computed so far
    storeHeight,  \* Store: the "height" row, as Height() answers
    storeHash,    \* Store rows 0x01,0x00: height -> hash, or NoHash
    storeData,    \* Store header, body and signature rows: height -> chain
                  \* data, or NoData
    ctxSlot,      \* the data.Context the last successful Validate returned
    fwd,          \* what the last forwardCandidates of a ProcessContext call
                  \* was given and did
    last,         \* the last call and what it returned
    commits       \* the chain data StoreData has stored so far

VARIABLES
    lbRows,       \* Store rows under tagLockedBalance: key bytes -> amount
    lbBalance,    \* Store account rows: address -> balance, or NoAccount
    lbHeight,     \* Store: Height() of the store that holds lbRows
    lbLocked,     \* the locked balances committed and not yet at their
                  \* unlock height
    lbLast        \* the last block the locked balance store was given

VARIABLES
    kvRows,       \* Store rows 0x01,0x00 / 0x01,0x02 / 0x01,0x03: height ->
                  \* the chain data stored there, or NoBlock
    kvHeight,     \* Store: the "height" row
    kvSeq,        \* Store rows 0x02,0x02: address -> sequence, or NoSeq
    cache,        \* Store.cache: cached, height, heightHash, heightData
    SeqMap,       \* Store.SeqMap: address -> sequence, or NoSeq
    stPc,         \* where the StoreData call in progress stands
    stPending,    \* the arguments of the StoreData call in progress
    stLast        \* what a store that did not stop would answer

VARIABLES
    nmAccount,    \* Store rows 0x02,0x00: address -> the name of the account,
                  \* or NoName
    nmNameRow,    \* Store rows 0x02,0x01: name -> address, or NoAddress
    nmHeight      \* Store: Height() of the store that holds them

VARIABLES
    txWorkingMap, \* Kernel.txWorkingMap: the hashes AddTransaction works on
    txPool,       \* Kernel.txPool: the transactions pushed
    txQueue,      \* Kernel.txQueue: the hashes in the expiry queue
    atSeq,        \* Store.Seq of the sender
    call          \* caller -> where its AddTransaction call stands

VARIABLES
    gbPool,       \* Kernel.txPool of the node that generates blocks
    gbSeq,        \* Store.Seq of the sender on that node
    gbCtx,        \* the GenerateBlock call: its position, ctx.Seq of the
                  \* sender and the transactions in the block
    gbPopped,     \* the sequences UnsafePop returned in this call, each with
                  \* ctx.Seq of the sender at that moment
    gbSubmitted   \* the sequences submitted, in the order of submission

VARIABLES
    eqPool,       \* Kernel.txPool: the transactions it holds
    eqQueue,      \* Kernel.txQueue: transaction -> the expiry group it sits
                  \* in (1 is the first), or 0 when the queue does not hold it
    eqSent,       \* transaction -> the DoTransactionBroadcast calls made for it
    eqLeft,       \* transaction -> the last expiry group it left, or 0
    eqAdded,      \* the transactions AddTransaction admitted
    eqIncluded    \* the transactions of the blocks Process committed

VARIABLES
    vrVotes,      \* observer -> the timeout count and formulator of the
                  \* round votes it signs
    vrRound,      \* observer -> its VoteRound
    vrParked      \* the round votes an observer put into RoundVoteWaitMap
                  \* and has not handled yet

VARIABLES
    clOp,         \* goroutine -> the call it makes, or made last
    clPc,         \* goroutine -> where its call stands
    clArg,        \* goroutine -> the signatures given to its call and the
                  \* isClose it read
    clRet,        \* goroutine -> what its last call returned
    knCloseLock,  \* Kernel.closeLock: the readers, the writer, and the
                  \* goroutines that wait in Lock
    knMutex,      \* Kernel.Mutex: the goroutine that holds it, or 0
    knIsClose,    \* Kernel.isClose
    stCloseLock,  \* Store.closeLock
    stIsClose,    \* Store.isClose
    clHeight,     \* Store.Height()
    clPool,       \* Kernel.txPool: the number of transactions it holds
    clClosed      \* what Close calls have returned, and the state then

VARIABLES
    pgCount,      \* connection -> pingCount of its handleConnection
    pgConn,       \* connection -> whether the peer is still connected
    pgArmed,      \* connection -> whether its ping timer will fire again
    pgSilent      \* connection -> whether its peer has stopped sending

VARIABLES
    poEngine,     \* a Consensus object: candidates, rankMap, height, and the
                  \* error its last ProcessContext returned
    poRows,       \* Store rows 0x02,0x00 of the node that owns poEngine
    poOutcomes    \* what the last ProcessContext call could leave behind,
                  \* one Consensus object for every order in which the two
                  \* account maps can be ranged over

VARIABLES
    rwSaved,      \* the TestNetRewarder whose state is saved
    rwBlob,       \* the bytes buildSaveData returned, field by field
    rwLoaded      \* a new TestNetRewarder after LoadFromSaveData, and the error it returned

VARIABLES
    omPeerMap,    \* ObserverMesh.serverPeerMap: public hash -> the peer it holds, or NoPeer
    omPeer        \* connection -> the Peer made for it, where its goroutine stands, the old peer it found, and whether its conn is open

VARIABLES
    rvRevoked     \* the Revoke transactions committed: the account revoked, the Heritor named, and the unlock height

VARIABLES
    cfCall        \* the last CheckFork call: the chain data given and the error returned

VARIABLES
    vbArgs,       \* a validateBlockBody call: len(b.Body.Transactions) and runtime.NumCPU()
    vbChunks      \* the slices the call handed to its workers, and whether it panicked

VARIABLES
    brConfig,     \* Config.MaxBlocksPerFormulator of the observer
    brHeight,     \* Store.Height() of the observer's kernel
    brRound,      \* the observer's VoteRound, with BlockRounds and ClosedBlockRounds
    brLast        \* the last thing done to the VoteRound, and whether a CloseBlockRound found no open round

coreVars == <<candidates, rankMap, height, accounts, hashed, storeHeight,
              storeHash, storeData, ctxSlot, fwd, last, commits>>
lbVars == <<lbRows, lbBalance, lbHeight, lbLocked, lbLast>>
stVars == <<kvRows, kvHeight, kvSeq, cache, SeqMap, stPc, stPending, stLast>>
nmVars == <<nmAccount, nmNameRow, nmHeight>>
atVars == <<txWorkingMap, txPool, txQueue, atSeq, call>>
gbVars == <<gbPool, gbSeq, gbCtx, gbPopped, gbSubmitted>>
eqVars == <<eqPool, eqQueue, eqSent, eqLeft, eqAdded, eqIncluded>>
vrVars == <<vrVotes, vrRound, vrParked>>
clVars == <<clOp, clPc, clArg, clRet, knCloseLock, knMutex, knIsClose,
            stCloseLock, stIsClose, clHeight, clPool, clClosed>>
pgVars == <<pgCount, pgConn, pgArmed, pgSilent>>
poVars == <<poEngine, poRows, poOutcomes>>
rwVars == <<rwSaved, rwBlob, rwLoaded>>
omVars == <<omPeerMap, omPeer>>
rvVars == <<rvRevoked>>
cfVars == <<cfCall>>
vbVars == <<vbArgs, vbChunks>>
brVars == <<brConfig, brHeight, brRound, brLast>>
lateVars == <<poVars, rwVars, omVars, rvVars, cfVars, vbVars, brVars>>
extVars == <<eqVars, vrVars, clVars, pgVars, lateVars>>
auxVars == <<lbVars, stVars, nmVars, atVars, gbVars, extVars>>
vars == <<coreVars, auxVars>>
storeVars == <<storeHeight, storeHash, storeData, ctxSlot>>

\* a part of the node that the specification at hand does not run
LBIdle ==
    /\ lbRows = {} /\ lbBalance = <<>> /\ lbHeight = 0 /\ lbLocked = {}
    /\ lbLast = <<>>
STIdle ==
    /\ kvRows = <<>> /\ kvHeight = 0 /\ kvSeq = <<>> /\ cache = <<>>
    /\ SeqMap = <<>> /\ stPc = "idle" /\ stPending = <<>> /\ stLast = <<>>
NMIdle == nmAccount = <<>> /\ nmNameRow = <<>> /\ nmHeight = 0
ATIdle ==
    /\ txWorkingMap = {} /\ txPool = {} /\ txQueue = {} /\ atSeq = 0
    /\ call = <<>>
GBRest ==
    /\ gbPool = {} /\ gbSeq = 0 /\ gbCtx = <<>> /\ gbPopped = <<>>
    /\ gbSubmitted = <<>>
EQIdle ==
    /\ eqPool = {} /\ eqQueue = <<>> /\ eqSent = <<>> /\ eqLeft = <<>>
    /\ eqAdded = {} /\ eqIncluded = {}
VRIdle == vrVotes = <<>> /\ vrRound = <<>> /\ vrParked = {}
CLIdle ==
    /\ clOp = <<>> /\ clPc = <<>> /\ clArg = <<>> /\ clRet = <<>>
    /\ knCloseLock = <<>> /\ knMutex = 0 /\ knIsClose = FALSE
    /\ stCloseLock = <<>> /\ stIsClose = FALSE /\ clHeight = 0
    /\ clPool = 0 /\ clClosed = <<>>
PGIdle ==
    pgCount = <<>> /\ pgConn = <<>> /\ pgArmed = <<>> /\ pgSilent = <<>>
POIdle == poEngine = <<>> /\ poRows = <<>> /\ poOutcomes = {}
RWIdle == rwSaved = <<>> /\ rwBlob = <<>> /\ rwLoaded = <<>>
OMIdle == omPeerMap = <<>> /\ omPeer = <<>>
RVIdle == rvRevoked = {}
CFIdle == cfCall = <<>>
VBIdle == vbArgs = <<>> /\ vbChunks = <<>>
BRIdle == brConfig = 0 /\ brHeight = 0 /\ brRound = <<>> /\ brLast = <<>>
LateIdle == POIdle /\ RWIdle /\ OMIdle /\ RVIdle /\ CFIdle /\ VBIdle /\ BRIdle
ExtIdle == EQIdle /\ VRIdle /\ CLIdle /\ PGIdle /\ LateIdle
AuxIdle == LBIdle /\ STIdle /\ NMIdle /\ ATIdle /\ GBRest /\ ExtIdle
CoreIdle ==
    /\ candidates = <<>> /\ rankMap = <<>> /\ height = 0 /\ accounts = <<>>
    /\ hashed = {} /\ storeHeight = 0 /\ storeHash = <<>> /\ storeData = <<>>
    /\ ctxSlot = <<>> /\ fwd = <<>> /\ last = <<>> /\ commits = {}
\* what a specification of one part leaves alone
lbOthers == <<coreVars, stVars, nmVars, atVars, gbVars, extVars>>
stOthers == <<coreVars, lbVars, nmVars, atVars, gbVars, extVars>>
nmOthers == <<coreVars, lbVars, stVars, atVars, gbVars, extVars>>
atOthers == <<coreVars, lbVars, stVars, nmVars, gbVars, extVars>>
gbOthers == <<coreVars, lbVars, stVars, nmVars, atVars, extVars>>
oldVars == <<coreVars, lbVars, stVars, nmVars, atVars, gbVars, lateVars>>
OldIdle ==
    /\ CoreIdle /\ LBIdle /\ STIdle /\ NMIdle /\ ATIdle /\ GBRest
    /\ LateIdle
eqOthers == <<oldVars, vrVars, clVars, pgVars>>
vrOthers == <<oldVars, eqVars, clVars, pgVars>>
clOthers == <<oldVars, eqVars, vrVars, pgVars>>
pgOthers == <<oldVars, eqVars, vrVars, clVars>>
earlyVars == <<coreVars, lbVars, stVars, nmVars, atVars, gbVars, eqVars,
               vrVars, clVars, pgVars>>
EarlyIdle ==
    /\ CoreIdle /\ LBIdle /\ STIdle /\ NMIdle /\ ATIdle /\ GBRest
    /\ EQIdle /\ VRIdle /\ CLIdle /\ PGIdle
\* a specification of one of the later parts starts with every other part idle
POAlone == EarlyIdle /\ RWIdle /\ OMIdle /\ RVIdle /\ CFIdle /\ VBIdle /\ BRIdle
RWAlone == EarlyIdle /\ POIdle /\ OMIdle /\ RVIdle /\ CFIdle /\ VBIdle /\ BRIdle
OMAlone == EarlyIdle /\ POIdle /\ RWIdle /\ RVIdle /\ CFIdle /\ VBIdle /\ BRIdle
RVAlone == EarlyIdle /\ POIdle /\ RWIdle /\ OMIdle /\ CFIdle /\ VBIdle /\ BRIdle
CFAlone == EarlyIdle /\ POIdle /\ RWIdle /\ OMIdle /\ RVIdle /\ VBIdle /\ BRIdle
VBAlone == EarlyIdle /\ POIdle /\ RWIdle /\ OMIdle /\ RVIdle /\ CFIdle /\ BRIdle
BRAlone == EarlyIdle /\ POIdle /\ RWIdle /\ OMIdle /\ RVIdle /\ CFIdle /\ VBIdle
poOthers == <<earlyVars, rwVars, omVars, rvVars, cfVars, vbVars, brVars>>
brOthers == <<earlyVars, poVars, rwVars, omVars, rvVars, cfVars, vbVars>>
vbOthers == <<earlyVars, poVars, rwVars, omVars, rvVars, cfVars, brVars>>
cfOthers == <<earlyVars, poVars, rwVars, omVars, rvVars, vbVars, brVars>>
rvOthers == <<earlyVars, poVars, rwVars, omVars, cfVars, vbVars, brVars>>
omOthers == <<earlyVars, poVars, rwVars, rvVars, cfVars, vbVars, brVars>>
rwOthers == <<earlyVars, poVars, omVars, rvVars, cfVars, vbVars, brVars>>

(***************************************************************************)
(* consensus.Rank                                                          *)
(***************************************************************************)
NewRank(addr, pub, phase, hs) ==
    [Address |-> addr, PublicHash |-> pub, phase |-> phase, hashSpace |-> hs]

\* Rank.Less: smaller phase first, then hash-space, then address
Less(a, b) ==
    \/ a.phase < b.phase
    \/ a.phase = b.phase /\ a.hashSpace < b.hashSpace
    \/ a.phase = b.phase /\ a.hashSpace = b.hashSpace /\ a.Address < b.Address

\* sort.Search(n, f) with f(i) = m.Less(ranks[i+off]) (Go indices): the
\* binary search between i and j
RECURSIVE Search(_, _, _, _, _)
Search(i, j, m, ranks, off) ==
    IF i < j
    THEN LET h == (i + j) \div 2
         IN IF ~Less(m, ranks[h + off + 1])
            THEN Search(h + 1, j, m, ranks, off)
            ELSE Search(i, h, m, ranks, off)
    ELSE i

\* InsertRankToList
InsertRankToList(ranks, s) ==
    LET idx == Search(0, Len(ranks), s, ranks, 0)
    IN [k \in 1..(Len(ranks) + 1) |->
          IF k <= idx THEN ranks[k]
          ELSE IF k = idx + 1 THEN s
          ELSE ranks[k - 1]]

\* a reinsertion that writes m at its place without moving the ranks before it
ReinsertOverwrite(c, m) ==
    LET idx == Search(0, Len(c) - 1, m, c, 1)
    IN [k \in 1..Len(c) |-> IF k = idx + 1 THEN m ELSE c[k]]

\* the body of the two loops of forwardCandidates: the head, changed to m, is
\* moved behind the idx ranks that precede it
Reinsert(c, m) ==
    LET idx == Search(0, Len(c) - 1, m, c, 1)
    IN [k \in 1..Len(c) |->
          IF k <= idx THEN c[k + 1]
          ELSE IF k = idx + 1 THEN m
          ELSE c[k]]

\* the first loop of forwardCandidates
RECURSIVE Demote(_, _)
Demote(c, n) ==
    IF n = 0 THEN c
    ELSE Demote(Reinsert(c, [c[1] EXCEPT !.phase = c[1].phase + 1]), n - 1)

\* an advancement that takes the hash-space and keeps the phase
TopSetKeepPhase(c, hs) == [c EXCEPT !.hashSpace = hs]

\* Rank.Set on the head, after the demotions
TopSet(c, hs) == [c EXCEPT !.phase = c.phase + 1, !.hashSpace = hs]

\* a forwardCandidates that lets a timeout count equal to the number of
\* candidates pass
forwardCandidatesAbove(c, h, TimeoutCount, LastTableAppendHash) ==
    IF TimeoutCount > Len(c)
    THEN [err |-> "ErrExceedCandidateCount", candidates |-> c, height |-> h,
          top |-> NewRank(0, 0, 0, 0)]
    ELSE LET d == Demote(c, TimeoutCount)
             top == TopSet(d[1], LastTableAppendHash)
         IN [err |-> "nil", candidates |-> Reinsert(d, top), height |-> h + 1,
             top |-> top]

\* Consensus.forwardCandidates: the error, the new table and height, and the
\* rank it advanced
forwardCandidates(c, h, TimeoutCount, LastTableAppendHash) ==
    IF TimeoutCount >= Len(c)
    THEN [err |-> "ErrExceedCandidateCount", candidates |-> c, height |-> h,
          top |-> NewRank(0, 0, 0, 0)]
    ELSE LET d == Demote(c, TimeoutCount)
             top == TopSet(d[1], LastTableAppendHash)
         IN [err |-> "nil", candidates |-> Reinsert(d, top), height |-> h + 1,
             top |-> top]

\* Consensus.largestPhase
largestPhase(c) == IF Len(c) = 0 THEN 0 ELSE c[Len(c)].phase

\* Consensus.addRank on the pair (candidates, rankMap)
addRank(cs, s) ==
    IF Len(cs.candidates) > 0 /\ s.phase < cs.candidates[1].phase
    THEN [cs EXCEPT !.err = "ErrInvalidPhase"]
    ELSE IF cs.rankMap[s.Address] # NoKey
    THEN [cs EXCEPT !.err = "ErrExistAddress"]
    ELSE [cs EXCEPT !.candidates = InsertRankToList(cs.candidates, s),
                    !.rankMap[s.Address] = s.PublicHash]

\* Consensus.removeRank: the address leaves the map; the filtered list is
\* built and dropped
removeRank(cs, addr) ==
    IF cs.rankMap[addr] # NoKey
    THEN [cs EXCEPT !.rankMap[addr] = NoKey]
    ELSE cs

\* the loop over ctd.CreatedAccountMap of ApplyGenesis and ProcessContext;
\* created is a function address -> KeyHash (NoKey: not created).  The ranks
\* all get the same phase, so the table does not depend on the map's order.
RECURSIVE addCreated(_, _, _, _)
addCreated(cs, created, todo, phase) ==
    IF todo = {} \/ cs.err # "nil" THEN cs
    ELSE LET a == CHOOSE x \in todo : \A y \in todo : x <= y
         IN addCreated(addRank(cs, NewRank(a, created[a], phase, DoubleHash(a))),
                       created, todo \ {a}, phase)

\* the loop over ctd.DeletedAccountMap
RECURSIVE removeDeleted(_, _)
removeDeleted(cs, todo) ==
    IF todo = {} THEN cs
    ELSE LET a == CHOOSE x \in todo : \A y \in todo : x <= y
         IN removeDeleted(removeRank(cs, a), todo \ {a})

Created(ctd) == {a \in Addresses : ctd.created[a] # NoKey}

\* Consensus.ApplyGenesis
ApplyGenesis(cs, ctd) ==
    LET phase == largestPhase(cs.candidates) + 1
        added == addCreated(cs, ctd.created, Created(ctd), phase)
    IN IF added.err # "nil" THEN added
       ELSE removeDeleted(added, ctd.deleted)

\* Consensus.ProcessContext
ProcessContext(cs, ctd, HeaderHash, TimeoutCount) ==
    LET f == forwardCandidates(cs.candidates, cs.height, TimeoutCount, HeaderHash)
        moved == [cs EXCEPT !.candidates = f.candidates, !.height = f.height]
        phase == largestPhase(moved.candidates) + 1
        added == addCreated(moved, ctd.created, Created(ctd), phase)
    IN IF f.err # "nil" THEN [cs EXCEPT !.err = f.err]
       ELSE IF added.err # "nil" THEN added
       ELSE removeDeleted(added, ctd.deleted)

\* Consensus.TopRank
TopRank(c, TimeoutCount) ==
    IF TimeoutCount >= Len(c)
    THEN [err |-> "ErrInsufficientCandidateCount", rank |-> NewRank(0, 0, 0, 0)]
    ELSE [err |-> "nil", rank |-> c[TimeoutCount + 1]]

\* Consensus.IsFormulator
IsFormulator(Formulator, Publichash) ==
    /\ rankMap[Formulator] # NoKey
    /\ rankMap[Formulator] = Publichash

(***************************************************************************)
(* data.ContextData, as far as the rank table and the account rows read it *)
(***************************************************************************)
\* ctd.CreatedAccountMap (address -> KeyHash, NoKey: not created) and
\* ctd.DeletedAccountMap of formulation accounts.  A block creates at most
\* one formulation account and deletes at most one.
NoneCreated == [a \in Addresses |-> NoKey]
\* the key hashes of the accounts that blocks create
NewKeys == {2}
Creations ==
    {NoneCreated} \cup
    {[NoneCreated EXCEPT ![a] = k] : a \in Addresses, k \in NewKeys}
Deletions == {{}} \cup {{a} : a \in Addresses}
ContextDatas ==
    {[created |-> cr, deleted |-> del] : cr \in Creations, del \in Deletions}

\* what executing transactions over the account rows can produce:
\* CreateFormulation refuses an address that exists (ErrExistAddress), Revoke
\* loads the account it deletes
Executable(ctd) ==
    /\ \A a \in Created(ctd) : accounts[a] = NoKey
    /\ \A a \in ctd.deleted : accounts[a] # NoKey

\* applyContextData on the account rows
applyContextData(rows, ctd) ==
    [a \in Addresses |->
        IF a \in ctd.deleted THEN NoKey
        ELSE IF ctd.created[a] # NoKey THEN ctd.created[a]
        ELSE rows[a]]

(***************************************************************************)
(* The rank table driven block by block                                    *)
(***************************************************************************)
NoRank == NewRank(0, 0, 0, 0)
NoData == [signer |-> NoKey]
NoCtx == [target |-> 0]
\* what the last call answered: the operation, its error, and for a kernel call
\* the number of observer signatures it was given (nobs), whether a Context
\* came with it (ud), the store height it found (h0), whether the header
\* extended the stored chain (linked), whether the rank table changed
\* (touched), and the errors that answer what is wrong with the header
\* (expect)
NoResult == [op |-> "idle", err |-> "nil", nobs |-> 0, ud |-> FALSE,
             h0 |-> 0, linked |-> FALSE, touched |-> FALSE, expect |-> {}]
Result(op, err) == [NoResult EXCEPT !.op = op, !.err = err]
NoForward == [t |-> 0, hash |-> 0, pre |-> <<>>, post |-> <<>>,
              h0 |-> 0, h1 |-> 0, top |-> NoRank]

\* NewConsensus
NewConsensus == [candidates |-> <<>>, rankMap |-> NoneCreated, height |-> 0,
                 err |-> "nil"]

\* the Consensus object as the methods find it
Engine == [candidates |-> candidates, rankMap |-> rankMap, height |-> height,
           err |-> "nil"]

\* the genesis context data: formulation accounts are created, none deleted
\* (the account at address a carries the key hash a)
GenesisDatas ==
    {[created |-> [a \in Addresses |-> IF a \in S THEN a ELSE NoKey],
      deleted |-> {}] : S \in (SUBSET Addresses) \ {{}}}

\* NewKernel on an empty store: ApplyGenesis, then StoreGenesis
Init ==
    \E g \in GenesisDatas :
        LET cs == ApplyGenesis(NewConsensus, g)
        IN /\ candidates = cs.candidates
           /\ rankMap = cs.rankMap
           /\ height = cs.height
           /\ accounts = applyContextData(NoneCreated, g)
           /\ hashed = {}
           /\ storeHeight = 0
           /\ storeHash = [h \in Heights |-> IF h = 0 THEN GenesisHash ELSE NoHash]
           /\ storeData = [h \in Heights |-> NoData]
           /\ ctxSlot = NoCtx
           /\ fwd = NoForward
           /\ last = Result("ApplyGenesis", cs.err)
           /\ commits = {}
           /\ AuxIdle

\* what forwardCandidates did, when it ran
Forwarded(cs, HeaderHash, TimeoutCount) ==
    LET f == forwardCandidates(cs.candidates, cs.height, TimeoutCount, HeaderHash)
    IN IF f.err # "nil" THEN fwd
       ELSE [t |-> TimeoutCount, hash |-> HeaderHash, pre |-> cs.candidates,
             post |-> f.candidates, h0 |-> cs.height, h1 |-> f.height,
             top |-> f.top]

\* Consensus.ProcessContext called with the context data and header of one
\* block; the account rows follow when the block is committed
CallProcessContext(ctd, HeaderHash, TimeoutCount) ==
    /\ Executable(ctd)
    /\ LET cs == ProcessContext(Engine, ctd, HeaderHash, TimeoutCount)
       IN /\ candidates' = cs.candidates
          /\ rankMap' = cs.rankMap
          /\ height' = cs.height
          /\ accounts' = IF cs.err = "nil" THEN applyContextData(accounts, ctd)
                         ELSE accounts
          /\ hashed' = IF cs.height # height THEN hashed \cup {HeaderHash}
                       ELSE hashed
          /\ fwd' = Forwarded(Engine, HeaderHash, TimeoutCount)
          /\ last' = Result("ProcessContext", cs.err)
          /\ UNCHANGED <<storeVars, commits, auxVars>>

NextCS ==
    /\ height < MaxBlocks
    /\ \E ctd \in ContextDatas, H \in HeaderHashes \ hashed,
          t \in 0..Len(candidates) :
           CallProcessContext(ctd, H, t)

SpecCS == Init /\ [][NextCS]_vars

(***************************************************************************)
(* Kernel: Screening, Validate and Process over the store                  *)
(***************************************************************************)
\* Store.LastHash: the hash row of Height()
LastHash == storeHash[storeHeight]

\* a count that asks for the generator signature and N/2+2 more
SignatureCountApart == Cardinality(ObserverKeyMap) \div 2 + 3

\* the number of signatures Screening and Process ask of chain data
SignatureCount == Cardinality(ObserverKeyMap) \div 2 + 2

\* ctx.Hash() of the Context built over the store whose next height is
\* target and whose last hash is prev, after executing a body that yields ctd
ContextHash(target, prev, ctd) == <<target, prev, ctd>>

\* a block header together with what its body executes to (ctd) and whether
\* its LevelRootHash matches the body (root); coord tells whether ChainCoord
\* equals Config.ChainCoord
Header(v, h, prev, coord, t, f, ctd, root, H) ==
    [version |-> v, height |-> h, prev |-> prev, coord |-> coord,
     timeout |-> t, formulator |-> f, ctd |-> ctd, root |-> root,
     ctxhash |-> ContextHash(h, prev, ctd), hash |-> H]

\* chain.Data: header and body, Signatures[0] given as the public hash it
\* recovers to (NoKey: none), Signatures[1:] as the observers' public hashes
Data(hdr, signer, obs) == [hdr |-> hdr, signer |-> signer, obs |-> obs]

\* common.ValidateSignaturesMajority over the observer signatures
ValidateSignaturesMajority(sigs) ==
    IF Len(sigs) <= Cardinality(ObserverKeyMap) \div 2
    THEN "ErrInsufficientSignature"
    ELSE IF \E i \in 1..Len(sigs) : sigs[i] \notin ObserverKeyMap
    THEN "ErrInvalidSignature"
    ELSE IF \E i, j \in 1..Len(sigs) : i # j /\ sigs[i] = sigs[j]
    THEN "ErrDuplicatedSignature"
    ELSE "nil"

\* Kernel.contextByBlock
contextByBlock(hdr) ==
    LET fail(e) == [err |-> e, ctx |-> NoCtx]
    IN IF ~hdr.root THEN fail("ErrInvalidLevelRootHash")
       ELSE IF ~hdr.coord THEN fail("ErrInvalidChainCoord")
       ELSE IF ~Executable(hdr.ctd) THEN fail("ErrExecute")
       ELSE IF hdr.ctxhash # ContextHash(storeHeight + 1, LastHash, hdr.ctd)
       THEN fail("ErrInvalidAppendContextHash")
       ELSE [err |-> "nil",
             ctx |-> [target |-> storeHeight + 1, ctd |-> hdr.ctd]]

\* ctx.Account(addr) finds an account: in the context's own data, else in
\* the store
AccountExists(ctx, addr) ==
    /\ addr \notin ctx.ctd.deleted
    /\ ctx.ctd.created[addr] # NoKey \/ accounts[addr] # NoKey

\* TestNetRewarder.ProcessReward
ProcessReward(addr, ctx) ==
    IF AccountExists(ctx, addr) THEN "nil" ELSE "ErrNotExistAccount"

\* Kernel.Screening
ScreeningErr(cd) ==
    IF ~cd.hdr.coord THEN "ErrInvalidChainCoord"
    ELSE IF 1 + Len(cd.obs) # SignatureCount THEN "ErrInvalidSignatureCount"
    ELSE ValidateSignaturesMajority(cd.obs)

Screening(cd) ==
    /\ last' = [Result("Screening", ScreeningErr(cd)) EXCEPT
                    !.nobs = Len(cd.obs)]
    /\ UNCHANGED <<candidates, rankMap, height, accounts, hashed, storeVars,
                   fwd, commits, auxVars>>

\* a validation that does not compare the generator's public hash
ValidateErrAnySigner(hdr, GeneratorSignature) ==
    LET LastHeader == storeData[storeHeight].hdr
    IN IF hdr.height # storeHeight + 1 THEN "ErrInvalidHeight"
       ELSE IF hdr.height = 1 /\ hdr.version <= 0 THEN "ErrInvalidVersion"
       ELSE IF hdr.height = 1 /\ hdr.prev # LastHash THEN "ErrInvalidPrevHash"
       ELSE IF hdr.height # 1 /\ hdr.version < LastHeader.version
       THEN "ErrInvalidVersion"
       ELSE IF hdr.height # 1 /\ hdr.prev # LastHeader.hash
       THEN "ErrInvalidPrevHash"
       ELSE IF ~hdr.coord THEN "ErrInvalidChainCoord"
       ELSE contextByBlock(hdr).err

\* Kernel.Validate: the error it returns, or "nil" when it returns a Context
ValidateErr(hdr, GeneratorSignature) ==
    LET Top == TopRank(candidates, hdr.timeout)
        LastHeader == storeData[storeHeight].hdr
    IN IF hdr.height # storeHeight + 1 THEN "ErrInvalidHeight"
       ELSE IF hdr.height = 1 /\ hdr.version <= 0 THEN "ErrInvalidVersion"
       ELSE IF hdr.height = 1 /\ hdr.prev # LastHash THEN "ErrInvalidPrevHash"
       ELSE IF hdr.height # 1 /\ hdr.version < LastHeader.version
       THEN "ErrInvalidVersion"
       ELSE IF hdr.height # 1 /\ hdr.prev # LastHeader.hash
       THEN "ErrInvalidPrevHash"
       ELSE IF ~hdr.coord THEN "ErrInvalidChainCoord"
       ELSE IF Top.err # "nil" THEN Top.err
       ELSE IF GeneratorSignature = NoKey THEN "ErrInvalidSignature"
       ELSE IF Top.rank.PublicHash # GeneratorSignature
       THEN "ErrInvalidTopSignature"
       ELSE contextByBlock(hdr).err

\* what a header and generator signature lack to extend the stored chain,
\* each as the error that names it
Unmet(hdr, GeneratorSignature) ==
    LET lastVersion == IF storeHeight = 0 THEN 0
                       ELSE storeData[storeHeight].hdr.version
    IN {e \in {"ErrInvalidHeight"} : hdr.height # storeHeight + 1} \cup
       {e \in {"ErrInvalidVersion"} :
            \/ hdr.version < lastVersion
            \/ hdr.height = 1 /\ hdr.version <= 0} \cup
       {e \in {"ErrInvalidPrevHash"} : hdr.prev # LastHash} \cup
       {e \in {"ErrInvalidChainCoord"} : ~hdr.coord} \cup
       {e \in {"ErrInsufficientCandidateCount"} :
            hdr.timeout >= Len(candidates)} \cup
       {e \in {"ErrInvalidSignature", "ErrInvalidTopSignature"} :
            /\ hdr.timeout < Len(candidates)
            /\ candidates[hdr.timeout + 1].PublicHash # GeneratorSignature}

Validate(cd) ==
    LET err == ValidateErr(cd.hdr, cd.signer)
    IN /\ ctxSlot' = IF err = "nil" THEN contextByBlock(cd.hdr).ctx ELSE ctxSlot
       /\ last' = [Result("Validate", err) EXCEPT
                       !.expect = Unmet(cd.hdr, cd.signer)]
       /\ UNCHANGED <<candidates, rankMap, height, accounts, hashed,
                      storeHeight, storeHash, storeData, fwd, commits,
                      auxVars>>

\* Kernel.Process up to the context: the error it returns before it reaches
\* Consensus.ProcessContext, or "nil"
ProcessChecks(cd, UserData) ==
    LET Top == TopRank(candidates, cd.hdr.timeout)
    IN IF ~cd.hdr.coord THEN "ErrInvalidChainCoord"
       ELSE IF 1 + Len(cd.obs) # SignatureCount THEN "ErrInvalidSignatureCount"
       ELSE IF Top.err # "nil" THEN Top.err
       ELSE IF cd.signer = NoKey THEN "ErrInvalidSignature"
       ELSE IF Top.rank.PublicHash # cd.signer THEN "ErrInvalidTopSignature"
       ELSE IF ValidateSignaturesMajority(cd.obs) # "nil"
       THEN ValidateSignaturesMajority(cd.obs)
       ELSE IF UserData = NoCtx THEN contextByBlock(cd.hdr).err
       ELSE "nil"

\* Store.StoreData
StoreData(rows, cd) == [rows EXCEPT ![cd.hdr.height] = cd]

\* Kernel.Process
Process(cd, UserData) ==
    LET checks == ProcessChecks(cd, UserData)
        ctx == IF UserData = NoCtx THEN contextByBlock(cd.hdr).ctx
               ELSE UserData
        cs == ProcessContext(Engine, ctx.ctd, cd.hdr.hash, cd.hdr.timeout)
        err == IF checks # "nil" THEN checks
               ELSE IF cs.err # "nil" THEN cs.err
               ELSE ProcessReward(cd.hdr.formulator, ctx)
    IN /\ candidates' = IF checks = "nil" THEN cs.candidates ELSE candidates
       /\ rankMap' = IF checks = "nil" THEN cs.rankMap ELSE rankMap
       /\ height' = IF checks = "nil" THEN cs.height ELSE height
       /\ fwd' = fwd
       /\ hashed' = IF checks = "nil" /\ cs.height # height
                    THEN hashed \cup {cd.hdr.hash} ELSE hashed
       /\ accounts' = IF err = "nil" THEN applyContextData(accounts, ctx.ctd)
                      ELSE accounts
       /\ storeHeight' = IF err = "nil" THEN cd.hdr.height ELSE storeHeight
       /\ storeHash' = IF err = "nil"
                       THEN [storeHash EXCEPT ![cd.hdr.height] = cd.hdr.hash]
                       ELSE storeHash
       /\ storeData' = IF err = "nil" THEN StoreData(storeData, cd)
                       ELSE storeData
       /\ commits' = IF err = "nil" THEN commits \cup {cd} ELSE commits
       /\ ctxSlot' = NoCtx
       /\ last' = [op |-> "Process", err |-> err, nobs |-> Len(cd.obs),
                   expect |-> {},
                   ud |-> UserData # NoCtx, h0 |-> storeHeight,
                   linked |-> /\ cd.hdr.height = storeHeight + 1
                              /\ cd.hdr.prev = LastHash,
                   touched |-> \/ checks = "nil" /\ cs.candidates # candidates
                               \/ checks = "nil" /\ cs.rankMap # rankMap
                               \/ checks = "nil" /\ cs.height # height]
       /\ UNCHANGED auxVars

\* the caller takes the answer
Return ==
    /\ last.op \in {"Screening", "Validate", "Process"}
    /\ last' = NoResult
    /\ UNCHANGED <<candidates, rankMap, height, accounts, hashed, storeVars,
                   fwd, commits, auxVars>>

\* observer signature lists handed to the kernel: the three signatures that
\* pass, four, two, a repeated signer, a signer outside the key map
Quorum == <<11, 12, 13>>
ObserverSignatures ==
    {Quorum, <<11, 12, 13, 14>>, <<11, 12>>, <<11, 12, 12>>, <<11, 12, 99>>}

\* the chain data a formulator builds on the present chain for rank t
Generated(t, ctd, H) ==
    Data(Header(1, storeHeight + 1, LastHash, TRUE, t,
                candidates[t + 1].Address, ctd, TRUE, H),
         candidates[t + 1].PublicHash, Quorum)

\* the same with one part replaced
Variants(cd) ==
    {[cd EXCEPT !.hdr.version = v] : v \in Versions} \cup
    {[cd EXCEPT !.hdr = Header(1, h, cd.hdr.prev, TRUE, 0, cd.hdr.formulator,
                               cd.hdr.ctd, TRUE, cd.hdr.hash)] :
         h \in 1..MaxCommits} \cup
    {[cd EXCEPT !.hdr = Header(1, cd.hdr.height, NoHash, TRUE, 0,
                               cd.hdr.formulator, cd.hdr.ctd, TRUE,
                               cd.hdr.hash)]} \cup
    {[cd EXCEPT !.hdr.coord = FALSE]} \cup
    {[cd EXCEPT !.hdr.timeout = Len(candidates)]} \cup
    {[cd EXCEPT !.hdr.formulator = a] : a \in Addresses} \cup
    {[cd EXCEPT !.hdr.root = FALSE]} \cup
    {[cd EXCEPT !.hdr.ctxhash = <<>>]} \cup
    {[cd EXCEPT !.signer = k] : k \in PubKeys \cup {NoKey}} \cup
    {[cd EXCEPT !.obs = o] : o \in ObserverSignatures}

\* what the bodies handed to the kernel execute to: nothing, the creation of
\* one formulation account, or the deletion of one
NoChange == [created |-> NoneCreated, deleted |-> {}]
Bodies == {ctd \in ContextDatas : ctd.created = NoneCreated \/ ctd.deleted = {}}

\* the hash of the next header built: the first one no header had yet
NextHash == CHOOSE H \in HeaderHashes \ hashed :
                \A G \in HeaderHashes \ hashed : H <= G

\* chain data the store holds, delivered again
Stored == {storeData[h] : h \in {k \in 1..MaxCommits : storeData[k] # NoData}}

\* the chain data the kernel is handed
Inputs ==
    Stored \cup
    IF storeHeight < MaxCommits
    THEN {Generated(t, ctd, NextHash) : ctd \in Bodies,
                                        t \in 0..(Len(candidates) - 1)} \cup
         Variants(Generated(0, NoChange, NextHash))
    ELSE {}

\* the caller is ready for a call: it holds no unanswered call, and the
\* consensus height is below MaxCommits
Ready == last.op \in {"idle", "ApplyGenesis"} /\ height < MaxCommits

\* a caller that holds a Context hands it to Process next
CallScreening == Ready /\ ctxSlot = NoCtx /\ \E cd \in Inputs : Screening(cd)
CallValidate == Ready /\ ctxSlot = NoCtx /\ \E cd \in Inputs : Validate(cd)
CallProcess == Ready /\ \E cd \in Inputs : Process(cd, ctxSlot)

Next == CallScreening \/ CallValidate \/ CallProcess \/ Return

Spec == Init /\ [][Next]_vars

(***************************************************************************)
(* Claims about the rank table                                             *)
(***************************************************************************)
CandidateAddresses == {candidates[i].Address : i \in 1..Len(candidates)}
ActiveAccounts == {a \in Addresses : accounts[a] # NoKey}
\* forwardCandidates ran on a table and returned no error
ForwardRan == fwd.pre # <<>>
\* every two adjacent ranks of c are in strict order
Sorted(c) == \A i \in 1..(Len(c) - 1) : Less(c[i], c[i + 1])

\* C1: after ApplyGenesis and after a successful ProcessContext, every two
\* adjacent candidates (a, b) of the rank table satisfy a < b under (phase,
\* hash-space, address): the table is strictly sorted.
C1_StrictlySorted == last.err = "nil" => Sorted(candidates)

\* C2: after ApplyGenesis and after a successful ProcessContext, the addresses
\* of the candidate list are exactly the active formulation accounts; a
\* deleted account has no candidate.
C2_CandidatesAreActiveAccounts ==
    last.err = "nil" => CandidateAddresses = ActiveAccounts

\* C3: on a sorted table and with t below its length, the rank that
\* ForwardCandidates(t, H) advances (phase + 1, hash-space H) has the address
\* of the rank TopRank(t) returned immediately before the call.
C3_AdvancedIsTopRank ==
    (ForwardRan /\ Sorted(fwd.pre)) =>
        fwd.top.Address = TopRank(fwd.pre, fwd.t).rank.Address

\* how many candidates of c carry the address a
Count(c, a) == Cardinality({i \in 1..Len(c) : c[i].Address = a})

\* C4: ForwardCandidates(t, H) leaves the multiset of candidate addresses
\* unchanged: no rank is lost, duplicated or overwritten.
C4_ForwardKeepsAddresses ==
    ForwardRan =>
        /\ Len(fwd.post) = Len(fwd.pre)
        /\ \A a \in Addresses : Count(fwd.post, a) = Count(fwd.pre, a)

\* a forward with a timeout over a table of three ranks that reordered it
C4_Witness ==
    /\ ForwardRan
    /\ fwd.t >= 1
    /\ Len(fwd.pre) >= 3
    /\ \E i \in 1..Len(fwd.pre) : fwd.post[i].Address # fwd.pre[i].Address

\* the head of c, changed to m, put behind every other rank that is not
\* greater than it
PutInOrder(c, m) ==
    LET rest == Tail(c)
        n == Cardinality({i \in 1..Len(rest) : ~Less(m, rest[i])})
    IN SubSeq(rest, 1, n) \o <<m>> \o SubSeq(rest, n + 1, Len(rest))

\* t head demotions
RECURSIVE HeadDemotions(_, _)
HeadDemotions(c, t) ==
    IF t = 0 THEN c
    ELSE HeadDemotions(
             PutInOrder(c, NewRank(c[1].Address, c[1].PublicHash,
                                   c[1].phase + 1, c[1].hashSpace)), t - 1)

\* one advancement of the head to the hash-space H
Advancement(c, H) ==
    PutInOrder(c, NewRank(c[1].Address, c[1].PublicHash, c[1].phase + 1, H))

\* C5: ForwardCandidates(t, H) is exactly t head demotions (phase + 1,
\* reinserted in order) followed by one advancement (phase + 1, hash-space H,
\* reinserted in order) and height + 1; nothing else changes.
C5_ForwardIsDemotionsThenAdvance ==
    ForwardRan =>
        /\ fwd.post = Advancement(HeadDemotions(fwd.pre, fwd.t), fwd.hash)
        /\ fwd.h1 = fwd.h0 + 1

\* a forward with two demotions, the last one passing a rank
C5_Witness ==
    /\ ForwardRan
    /\ fwd.t = 2
    /\ fwd.post[1].Address # fwd.pre[1].Address
    /\ \E i \in 1..Len(fwd.post) : fwd.post[i].hashSpace = fwd.hash

\* C6: after ApplyGenesis and after a successful ProcessContext, no two
\* candidates share an address, and IsFormulator(a, p) is true exactly when
\* the candidate list holds a rank with address a and public-hash p.
C6_UniqueAndIsFormulator ==
    last.err = "nil" =>
        /\ \A a \in Addresses : Count(candidates, a) <= 1
        /\ \A a \in Addresses, p \in PubKeys :
               IsFormulator(a, p) <=>
                   \E i \in 1..Len(candidates) :
                       /\ candidates[i].Address = a
                       /\ candidates[i].PublicHash = p

(***************************************************************************)
(* Claims about the kernel                                                 *)
(***************************************************************************)
\* C7: when Kernel.Process returns an error, the block is not committed and
\* the store height and the rank table are as they were before the call.
C7_FailedProcessChangesNothing ==
    (last.op = "Process" /\ last.err # "nil") =>
        (~last.touched /\ storeHeight = last.h0)

\* C8: Kernel.Process commits chain data only when the header's height is the
\* store height plus one and its prev-hash is LastHash(), with or without a
\* precomputed Context, so the stored height grows by exactly one per commit.
C8_ProcessCommitsOnlyLinked ==
    (last.op = "Process" /\ last.err = "nil") =>
        (last.linked /\ storeHeight = last.h0 + 1)

C10_ValidateChecks ==
    last.op = "Validate" =>
        /\ last.err = "nil" => (last.expect = {} /\ ctxSlot # NoCtx)
        /\ last.expect # {} => (last.err \in last.expect /\ ctxSlot = NoCtx)

C10_Witness ==
    /\ last.op = "Validate"
    /\ last.err = "nil"
    /\ storeHeight >= 1
    /\ ctxSlot.target = storeHeight + 1

(***************************************************************************)
(* Locked balances: the key layout, the two indexes and their release      *)
(***************************************************************************)
\* the last height the locked balance store is driven to
MaxLBHeight == 3

\* common.AddressSize, shortened: a key is the tag, an address, a height
AddressSize == 6
tagLockedBalance == <<6, 0>>
tagLockedBalanceHeight == <<6, 1>>
NoAccount == -1

\* binary.LittleEndian.PutUint32 and util.BytesToUint32
PutUint32(n) ==
    <<n % 256, (n \div 256) % 256, (n \div 65536) % 256,
      (n \div 16777216) % 256>>
BytesToUint32(bs) ==
    bs[1] + 256 * bs[2] + 65536 * bs[3] + 16777216 * bs[4]

\* copy(addr[:], bs): the first AddressSize bytes of bs
CopyAddress(bs) == SubSeq(bs, 1, AddressSize)
\* bs[n:]
From(bs, n) == SubSeq(bs, n + 1, Len(bs))
HasPrefix(bs, prefix) ==
    /\ Len(bs) >= Len(prefix)
    /\ SubSeq(bs, 1, Len(prefix)) = prefix

toLockedBalancePrefix(Address) == tagLockedBalance \o Address
toLockedBalanceKey(Address, UnlockHeight) ==
    tagLockedBalance \o Address \o PutUint32(UnlockHeight)
fromLockedBalanceKey(bs) ==
    [Address |-> CopyAddress(From(bs, 2)),
     UnlockHeight |-> BytesToUint32(From(bs, 2 + AddressSize))]
toLockedBalanceHeightPrefix(Height) == tagLockedBalance \o PutUint32(Height)
toLockedBalanceHeightKey(UnlockHeight, Address) ==
    tagLockedBalance \o PutUint32(UnlockHeight) \o Address
fromLockedBalanceHeightKey(bs) ==
    [Address |-> CopyAddress(From(bs, 6)),
     UnlockHeight |-> BytesToUint32(From(bs, 2))]

\* badger rows: txn.Get, txn.Set, txn.Delete
Keys(rows) == {r.key : r \in rows}
Get(rows, key) == (CHOOSE r \in rows : r.key = key).value
Delete(rows, key) == {r \in rows : r.key # key}
Set(rows, key, value) ==
    Delete(rows, key) \cup {[key |-> key, value |-> value]}

\* the accounts of the locked balance store: the first address begins with
\* the bytes of a height
LBAddresses == {<<2, 0, 0, 0, 0, 0>>, <<9, 9, 9, 9, 9, 9>>}

\* Store.LockedBalances
LockedBalances(rows, addr) ==
    {[Address |-> fromLockedBalanceKey(r.key).Address,
      Amount |-> r.value,
      UnlockHeight |-> fromLockedBalanceKey(r.key).UnlockHeight] :
         r \in {x \in rows : HasPrefix(x.key, toLockedBalancePrefix(addr))}}

\* Store.LockedBalancesByHeight
LockedBalancesByHeight(rows, Height) ==
    {[Address |-> fromLockedBalanceHeightKey(r.key).Address,
      Amount |-> r.value,
      UnlockHeight |-> fromLockedBalanceHeightKey(r.key).UnlockHeight] :
         r \in {x \in rows :
                    HasPrefix(x.key, toLockedBalanceHeightPrefix(Height))}}

\* Context.Account answers ErrNotExistAccount
LBExists(balance, addr) ==
    addr \in DOMAIN balance /\ balance[addr] # NoAccount

RECURSIVE SumAmount(_)
SumAmount(lbs) ==
    IF lbs = {} THEN 0
    ELSE LET lb == CHOOSE x \in lbs : TRUE
         IN lb.Amount + SumAmount(lbs \ {lb})

\* the transactions of a block, by what they do to locked balances:
\* Unstaking locks an amount for its sender, Revoke locks the amount and the
\* balance of the formulation account for tx.From() and deletes that account
LBDelays == {1, 2}
LBBodies ==
    {[op |-> "none", from |-> <<>>, delay |-> 0]} \cup
    {[op |-> o, from |-> a, delay |-> d] :
         o \in {"Unstaking", "Revoke"}, a \in LBAddresses, d \in LBDelays}

\* Transactor.Execute of the body on a Context of the balances
LBExecute(balance, target, body) ==
    IF body.op = "none"
    THEN [err |-> "nil", locked |-> {}, deleted |-> {}]
    ELSE IF ~LBExists(balance, body.from)
    THEN [err |-> "ErrNotExistAccount", locked |-> {}, deleted |-> {}]
    ELSE IF body.op = "Unstaking"
    THEN [err |-> "nil",
          locked |-> {[Address |-> body.from, Amount |-> 1,
                       UnlockHeight |-> target + body.delay]},
          deleted |-> {}]
    ELSE [err |-> "nil",
          locked |-> {[Address |-> body.from,
                       Amount |-> 1 + balance[body.from],
                       UnlockHeight |-> target + body.delay]},
          deleted |-> {body.from}]

\* contextByBlock up to the context hash: the locked balances of the target
\* height are credited and removed, then the body is executed
LBContextByBlock(rows, balance, target, body) ==
    LET lockedBalances == LockedBalancesByHeight(rows, target)
        credited == {lb \in lockedBalances : LBExists(balance, lb.Address)}
        released ==
            [a \in DOMAIN balance |->
                IF LBExists(balance, a)
                THEN balance[a] +
                     SumAmount({lb \in credited : lb.Address = a})
                ELSE balance[a]]
        ex == LBExecute(released, target, body)
    IN [err |-> ex.err,
        credited |-> credited,
        ctd |-> [AccountMap |->
                     {<<a, released[a]>> : a \in {lb.Address : lb \in credited}},
                 LockedBalances |-> ex.locked,
                 DeletedLockedBalances |->
                     {<<lb.Address, lb.UnlockHeight>> : lb \in lockedBalances},
                 DeletedAccountMap |-> ex.deleted]]

\* GenerateBlock up to the context hash: the body is executed on the Context
\* it was given, a fresh one, and the hash of that Context goes into the header
LBGenerateBlock(balance, target, body) ==
    LET ex == LBExecute(balance, target, body)
    IN [err |-> ex.err,
        ctd |-> [AccountMap |-> {},
                 LockedBalances |-> ex.locked,
                 DeletedLockedBalances |-> {},
                 DeletedAccountMap |-> ex.deleted]]

\* applyContextData, the locked balances: both rows of a locked balance are
\* set to the sum with the amount already under its address key
RECURSIVE applyLockedBalances(_, _)
applyLockedBalances(rows, lbs) ==
    IF lbs = {} THEN rows
    ELSE LET v == CHOOSE x \in lbs : TRUE
             key == toLockedBalanceKey(v.Address, v.UnlockHeight)
             AmountSum == IF key \in Keys(rows) THEN Get(rows, key) ELSE 0
         IN applyLockedBalances(
                Set(Set(rows, key, AmountSum + v.Amount),
                    toLockedBalanceHeightKey(v.UnlockHeight, v.Address),
                    AmountSum + v.Amount),
                lbs \ {v})

\* applyContextData, the deleted locked balances: both keys are deleted
RECURSIVE applyDeletedLockedBalances(_, _)
applyDeletedLockedBalances(rows, dels) ==
    IF dels = {} THEN rows
    ELSE LET v == CHOOSE x \in dels : TRUE
         IN applyDeletedLockedBalances(
                Delete(Delete(rows, toLockedBalanceKey(v[1], v[2])),
                       toLockedBalanceHeightKey(v[2], v[1])),
                dels \ {v})

\* applyContextData, the account rows: AccountMap, then DeletedAccountMap
applyAccounts(balance, ctd) ==
    [a \in DOMAIN balance |->
        IF a \in ctd.DeletedAccountMap THEN NoAccount
        ELSE IF \E p \in ctd.AccountMap : p[1] = a
        THEN (CHOOSE p \in ctd.AccountMap : p[1] = a)[2]
        ELSE balance[a]]

\* the locked balances that stay committed: those of the target height leave,
\* those of the block join the amount locked for their address and height
Relock(locked, target, lbs) ==
    LET kept == {l \in locked : l.UnlockHeight # target}
        Same(v) == {l \in kept : /\ l.Address = v.Address
                                 /\ l.UnlockHeight = v.UnlockHeight}
    IN {l \in kept : \A v \in lbs : l \notin Same(v)} \cup
       {[v EXCEPT !.Amount = v.Amount + SumAmount(Same(v))] : v \in lbs}

LBNoLast == [op |-> "idle", height |-> 0, err |-> "nil", due |-> {},
             credited |-> {}, before |-> {}]

\* a formulator generates the block of the next height on a fresh Context and
\* a node in the same state validates it
GenerateThenValidate(body) ==
    LET target == lbHeight + 1
        gen == LBGenerateBlock(lbBalance, target, body)
        val == LBContextByBlock(lbRows, lbBalance, target, body)
    IN /\ lbHeight < MaxLBHeight
       /\ gen.err = "nil"
       /\ lbLast' = [op |-> "GenerateBlock", height |-> target,
                     err |-> IF val.err # "nil" THEN val.err
                             ELSE IF ContextHash(target, lbHeight, gen.ctd) #
                                     ContextHash(target, lbHeight, val.ctd)
                             THEN "ErrInvalidAppendContextHash"
                             ELSE "nil",
                     due |-> {l \in lbLocked : l.UnlockHeight = target},
                     credited |-> {}, before |-> {}]
       /\ UNCHANGED <<lbRows, lbBalance, lbHeight, lbLocked>>

\* a block whose header carries the context hash of contextByBlock is
\* processed: StoreData applies the context data of its Context
LBProcess(body) ==
    LET target == lbHeight + 1
        val == LBContextByBlock(lbRows, lbBalance, target, body)
        due == {l \in lbLocked : l.UnlockHeight = target}
    IN /\ lbHeight < MaxLBHeight
       /\ val.err = "nil"
       /\ lbRows' = applyDeletedLockedBalances(
                        applyLockedBalances(lbRows, val.ctd.LockedBalances),
                        val.ctd.DeletedLockedBalances)
       /\ lbBalance' = applyAccounts(lbBalance, val.ctd)
       /\ lbHeight' = target
       /\ lbLocked' = Relock(lbLocked, target, val.ctd.LockedBalances)
       /\ lbLast' = [op |-> "Process", height |-> target, err |-> "nil",
                     due |-> due, credited |-> due \cap val.credited,
                     before |-> lbLocked]

LBInit ==
    /\ lbRows = {}
    /\ lbBalance = [a \in LBAddresses |-> 0]
    /\ lbHeight = 0
    /\ lbLocked = {}
    /\ lbLast = LBNoLast

CallGenerateThenValidate ==
    /\ \E body \in LBBodies : GenerateThenValidate(body)
    /\ UNCHANGED lbOthers
CallLBProcess ==
    /\ \E body \in LBBodies : LBProcess(body)
    /\ UNCHANGED lbOthers

InitLB ==
    /\ CoreIdle /\ LBInit /\ STIdle /\ NMIdle /\ ATIdle /\ GBRest
    /\ ExtIdle
NextLB == CallGenerateThenValidate \/ CallLBProcess
SpecLB == InitLB /\ [][NextLB]_vars

(***************************************************************************)
(* Claims about block generation and locked balances                       *)
(***************************************************************************)
\* C11: a block that GenerateBlock built on a fresh Context, signed by the
\* formulator TopRank(t) names, is accepted by Validate on a node in the same
\* state, also at a height where locked balances are due.
C11_GeneratedBlockValidates ==
    lbLast.op = "GenerateBlock" => lbLast.err = "nil"

\* the rows of a locked balance are both gone
RowsGone(l) ==
    /\ toLockedBalanceKey(l.Address, l.UnlockHeight) \notin Keys(lbRows)
    /\ toLockedBalanceHeightKey(l.UnlockHeight, l.Address) \notin Keys(lbRows)
\* a row of a locked balance is gone
RowGone(l) ==
    \/ toLockedBalanceKey(l.Address, l.UnlockHeight) \notin Keys(lbRows)
    \/ toLockedBalanceHeightKey(l.UnlockHeight, l.Address) \notin Keys(lbRows)

\* C15: for every locked balance (address, amount, unlock height) committed,
\* processing the block at the unlock height deletes both index rows and
\* credits the amount to the account; a locked amount is never removed
\* without being credited.
C15_DueLockedBalanceCredited ==
    lbLast.op = "Process" =>
        /\ \A l \in lbLast.due : RowsGone(l) /\ l \in lbLast.credited
        /\ \A l \in lbLast.before :
               (l.UnlockHeight >= lbLast.height /\ RowGone(l)) =>
                   l \in lbLast.credited

\* C16: LockedBalancesByHeight(H) and LockedBalances(addr) return exactly the
\* locked balances committed and not yet released, and the rows of the
\* address index and of the height index lie in disjoint key ranges.
C16_IndexesAreExactAndDisjoint ==
    /\ \A H \in 0..(MaxLBHeight + 2) :
           LockedBalancesByHeight(lbRows, H) =
               {l \in lbLocked : l.UnlockHeight = H}
    /\ \A addr \in LBAddresses :
           LockedBalances(lbRows, addr) = {l \in lbLocked : l.Address = addr}
    /\ \A l \in lbLocked :
           SubSeq(toLockedBalanceKey(l.Address, l.UnlockHeight), 1, 2) #
           SubSeq(toLockedBalanceHeightKey(l.UnlockHeight, l.Address), 1, 2)

(***************************************************************************)
(* Store: the KV rows of the chain, the height cache and the sequence      *)
(* cache, with StoreData taken step by step                                *)
(***************************************************************************)
\* the last height StoreData is driven to, and the largest sequence
MaxSTHeight == 3
STHeights == 0..MaxSTHeight
STAddresses == {1, 2}
NoSeq == -1
NoBlock == [height |-> -1, hash |-> NoHash]
\* the chain data of a height and the hash of its header
Block(h) == [height |-> h, hash |-> 20 * h - 10]

\* the context data of a block, by its SeqMap: the senders of its
\* transactions, each one sequence further
SeqMaps(seq) ==
    {[a \in S |-> IF seq[a] = NoSeq THEN 1 ELSE seq[a] + 1] :
         S \in SUBSET STAddresses}

\* storeCache after NewStore
ColdCache == [cached |-> FALSE, height |-> 0, heightHash |-> NoHash,
              heightData |-> NoBlock]
\* storeCache after StoreGenesis
GenesisCache == [cached |-> TRUE, height |-> 0, heightHash |-> GenesisHash,
                 heightData |-> NoBlock]
NoPending == [cd |-> NoBlock, SeqMap |-> <<>>]

\* Store.Height
StoreHeight(c, kvH) == IF c.cached THEN c.height ELSE kvH
\* Store.Hash: NoHash stands for ErrNotExistKey
StoreHashAt(c, rows, h) ==
    IF c.cached /\ c.height = h THEN c.heightHash
    ELSE IF h = 0 THEN GenesisHash
    ELSE rows[h].hash
\* Store.Header and Store.Data: NoBlock stands for ErrNotExistKey, and a
\* header is named by the chain data it belongs to
StoreHeaderAt(c, rows, h) ==
    IF h < 1 THEN NoBlock
    ELSE IF c.cached /\ c.height = h THEN c.heightData
    ELSE rows[h]
StoreDataAt(c, rows, h) ==
    IF h < 1 THEN NoBlock
    ELSE IF c.cached /\ c.height = h THEN c.heightData
    ELSE rows[h]
\* Store.Seq, the value it returns
StoreSeq(sm, seq, addr) ==
    IF sm[addr] # NoSeq THEN sm[addr]
    ELSE IF seq[addr] = NoSeq THEN 0
    ELSE seq[addr]
\* Store.Seq, the sequence cache it leaves
CacheSeq(sm, seq, addr) ==
    IF sm[addr] # NoSeq \/ seq[addr] = NoSeq THEN sm
    ELSE [sm EXCEPT ![addr] = seq[addr]]

\* StoreData: the sequence cache forgets the context's SeqMap
MergeSeqMapSkipped(sm, ctdSeqMap) == sm
\* StoreData: ctd.SeqMap is merged into the sequence cache
MergeSeqMap(sm, ctdSeqMap) ==
    [a \in STAddresses |->
        IF a \in DOMAIN ctdSeqMap THEN ctdSeqMap[a] ELSE sm[a]]

\* what the store answers to Height, Hash, Header, Data and Seq
Answers(c, sm, kvH, rows, seq) ==
    [Height |-> StoreHeight(c, kvH),
     Hash |-> [h \in STHeights |-> StoreHashAt(c, rows, h)],
     Header |-> [h \in STHeights |-> StoreHeaderAt(c, rows, h)],
     Data |-> [h \in STHeights |-> StoreDataAt(c, rows, h)],
     Seq |-> [a \in STAddresses |-> StoreSeq(sm, seq, a)]]

\* the height cache and the sequence cache StoreData leaves when it returns
Refreshed(c, cd) ==
    [cached |-> TRUE, height |-> cd.height, heightHash |-> cd.hash,
     heightData |-> cd]

STNoLast == [op |-> "idle", twin |-> <<>>]

\* StoreData, db.Update: the rows of the chain data, the height row and the
\* rows of the context data are written in one transaction
StoreDataUpdate(cd, ctdSeqMap) ==
    /\ stPc = "idle"
    /\ kvHeight < MaxSTHeight
    /\ kvRows' = [kvRows EXCEPT ![cd.height] = cd]
    /\ kvHeight' = cd.height
    /\ kvSeq' = [a \in STAddresses |->
                    IF a \in DOMAIN ctdSeqMap THEN ctdSeqMap[a] ELSE kvSeq[a]]
    /\ stPending' = [cd |-> cd, SeqMap |-> ctdSeqMap]
    /\ stPc' = "updated"
    /\ stLast' = STNoLast
    /\ UNCHANGED <<cache, SeqMap>>

\* StoreData, under SeqMapLock
StoreDataMerge ==
    /\ stPc = "updated"
    /\ SeqMap' = MergeSeqMap(SeqMap, stPending.SeqMap)
    /\ stPc' = "merged"
    /\ UNCHANGED <<kvRows, kvHeight, kvSeq, cache, stPending, stLast>>

\* StoreData, st.cache.height = cd.Header.Height()
StoreDataCacheHeight ==
    /\ stPc = "merged"
    /\ cache' = [cache EXCEPT !.height = stPending.cd.height]
    /\ stPc' = "height"
    /\ UNCHANGED <<kvRows, kvHeight, kvSeq, SeqMap, stPending, stLast>>

\* StoreData, st.cache.heightHash = DataHash
StoreDataCacheHash ==
    /\ stPc = "height"
    /\ cache' = [cache EXCEPT !.heightHash = stPending.cd.hash]
    /\ stPc' = "hash"
    /\ UNCHANGED <<kvRows, kvHeight, kvSeq, SeqMap, stPending, stLast>>

\* StoreData, st.cache.heightData = cd
StoreDataCacheData ==
    /\ stPc = "hash"
    /\ cache' = [cache EXCEPT !.heightData = stPending.cd]
    /\ stPc' = "data"
    /\ UNCHANGED <<kvRows, kvHeight, kvSeq, SeqMap, stPending, stLast>>

\* StoreData, st.cache.cached = true, and the return
StoreDataCacheCached ==
    /\ stPc = "data"
    /\ cache' = [cache EXCEPT !.cached = TRUE]
    /\ stPc' = "idle"
    /\ stPending' = NoPending
    /\ UNCHANGED <<kvRows, kvHeight, kvSeq, SeqMap, stLast>>

\* Store.Seq called by a reader
SeqRead(addr) ==
    /\ SeqMap' = CacheSeq(SeqMap, kvSeq, addr)
    /\ SeqMap' # SeqMap
    /\ UNCHANGED <<kvRows, kvHeight, kvSeq, cache, stPc, stPending, stLast>>

\* the process stops inside StoreData after db.Update returned, and the store
\* is opened again: NewStore over the same rows
Reopen ==
    /\ stPc # "idle"
    /\ cache' = ColdCache
    /\ SeqMap' = [a \in STAddresses |-> NoSeq]
    /\ stPc' = "idle"
    /\ stPending' = NoPending
    /\ stLast' = [op |-> "Reopen",
                  twin |-> Answers(Refreshed(cache, stPending.cd),
                                   IF stPc = "updated"
                                   THEN MergeSeqMap(SeqMap, stPending.SeqMap)
                                   ELSE SeqMap,
                                   kvHeight, kvRows, kvSeq)]
    /\ UNCHANGED <<kvRows, kvHeight, kvSeq>>

\* NewStore on an empty directory, then StoreGenesis
STInit ==
    /\ kvRows = [h \in STHeights |-> NoBlock]
    /\ kvHeight = 0
    /\ kvSeq = [a \in STAddresses |-> NoSeq]
    /\ cache = GenesisCache
    /\ SeqMap = [a \in STAddresses |-> NoSeq]
    /\ stPc = "idle"
    /\ stPending = NoPending
    /\ stLast = STNoLast

\* Kernel.Process stores the chain data of the next height
CallStoreData ==
    /\ \E ctdSeqMap \in SeqMaps(kvSeq) :
           StoreDataUpdate(Block(kvHeight + 1), ctdSeqMap)
    /\ UNCHANGED stOthers
StepMerge == StoreDataMerge /\ UNCHANGED stOthers
StepCacheHeight == StoreDataCacheHeight /\ UNCHANGED stOthers
StepCacheHash == StoreDataCacheHash /\ UNCHANGED stOthers
StepCacheData == StoreDataCacheData /\ UNCHANGED stOthers
StepCacheCached == StoreDataCacheCached /\ UNCHANGED stOthers
CallSeq == (\E addr \in STAddresses : SeqRead(addr)) /\ UNCHANGED stOthers
CrashAndReopen == Reopen /\ UNCHANGED stOthers

InitST ==
    /\ CoreIdle /\ LBIdle /\ STInit /\ NMIdle /\ ATIdle /\ GBRest
    /\ ExtIdle
NextST ==
    \/ CallStoreData \/ StepMerge \/ StepCacheHeight \/ StepCacheHash
    \/ StepCacheData \/ StepCacheCached \/ CallSeq \/ CrashAndReopen
SpecST == InitST /\ [][NextST]_vars

(***************************************************************************)
(* Claims about the store and its caches                                   *)
(***************************************************************************)
\* the hash of the chain data committed at a height
CommittedHash(h) == IF h = 0 THEN GenesisHash ELSE kvRows[h].hash
\* a row of the height answers a reader
Readable(h) ==
    \/ StoreHashAt(cache, kvRows, h) # NoHash
    \/ StoreHeaderAt(cache, kvRows, h) # NoBlock
    \/ StoreDataAt(cache, kvRows, h) # NoBlock

\* C12: a reader that runs while StoreData runs never sees a block commit
\* applied in part: at every point Hash(h) is not the hash of a block of
\* another height, and Height() is not below a height whose hash, header or
\* data is readable.
C12_ReadersSeeWholeCommits ==
    /\ \A h \in STHeights :
           StoreHashAt(cache, kvRows, h) # NoHash =>
               \A g \in STHeights \ {h} :
                   StoreHashAt(cache, kvRows, h) # CommittedHash(g)
    /\ \A h \in STHeights : Readable(h) => StoreHeight(cache, kvHeight) >= h

\* C14: a store that stopped inside StoreData after db.Update returned and
\* was opened again answers Height, Hash, Header and Seq as a store that did
\* not stop answers after the same commit; when no StoreData is running the
\* cached height, hash and sequences equal the rows.
C14_ReopenedStoreAnswersAlike ==
    /\ stLast.op = "Reopen" =>
           Answers(cache, SeqMap, kvHeight, kvRows, kvSeq) = stLast.twin
    /\ stPc = "idle" =>
           /\ cache.cached =>
                  /\ cache.height = kvHeight
                  /\ cache.heightHash = CommittedHash(kvHeight)
                  /\ kvHeight >= 1 => cache.heightData = kvRows[kvHeight]
           /\ \A a \in STAddresses :
                  SeqMap[a] # NoSeq => SeqMap[a] = kvSeq[a]
C14_Witness ==
    /\ stLast.op = "Reopen"
    /\ ~cache.cached
    /\ kvHeight >= 2
    /\ \E a \in STAddresses : kvSeq[a] >= 2

\* C13: for every chain data D committed at height h, in every later state
\* Hash(h) is the hash of D's header, Header(h) and Data(h) return the header
\* and the data of D, and Height() is at least h.
C13_CommittedDataStays ==
    \A D \in commits :
        /\ storeHash[D.hdr.height] = D.hdr.hash
        /\ storeData[D.hdr.height] = D
        /\ storeHeight >= D.hdr.height

(***************************************************************************)
(* Accounts and the name index                                             *)
(***************************************************************************)
\* the last height the account store is driven to
MaxNMHeight == 4
\* common.NewAddress(coord, 0): the account created by the transaction of a
\* block has the address of that block's height
NMAddresses == 1..MaxNMHeight
NMNames == {"a", "b"}
NoName == ""
NoAddress == 0

\* Store.IsExistAccount
IsExistAccount(rows, addr) == rows[addr] # NoName
\* Store.IsExistAccountName
IsExistAccountName(names, Name) == names[Name] # NoAddress
\* Store.AddressByName: NoAddress stands for ErrNotExistAccount
AddressByName(names, Name) == names[Name]

NoAccounts == [a \in {} |-> NoName]
\* the transaction of a block, by the context data it leaves: CreateFormulation
\* creates an account, any transaction that loads an account leaves it in
\* AccountMap, Revoke deletes one
NMBodies(rows, names, target) ==
    {[AccountMap |-> NoAccounts,
      CreatedAccountMap |-> [a \in {target} |-> Name],
      DeletedAccountMap |-> {}] :
         Name \in {n \in NMNames : /\ ~IsExistAccount(rows, target)
                                   /\ ~IsExistAccountName(names, n)}} \cup
    {[AccountMap |-> [a \in {addr} |-> rows[addr]],
      CreatedAccountMap |-> NoAccounts,
      DeletedAccountMap |-> {}] :
         addr \in {a \in NMAddresses : IsExistAccount(rows, a)}} \cup
    {[AccountMap |-> NoAccounts,
      CreatedAccountMap |-> NoAccounts,
      DeletedAccountMap |-> {addr}] :
         addr \in {a \in NMAddresses : IsExistAccount(rows, a)}}

\* applyContextData, the account rows: AccountMap, CreatedAccountMap, then
\* DeletedAccountMap
applyAccountRows(rows, ctd) ==
    [a \in NMAddresses |->
        IF a \in ctd.DeletedAccountMap THEN NoName
        ELSE IF a \in DOMAIN ctd.CreatedAccountMap
        THEN ctd.CreatedAccountMap[a]
        ELSE IF a \in DOMAIN ctd.AccountMap THEN ctd.AccountMap[a]
        ELSE rows[a]]

\* applyContextData, the name rows: only the accounts of AccountMap get one,
\* and no name row is deleted
applyNameRows(names, rows, ctd) ==
    [n \in NMNames |->
        IF \E a \in DOMAIN ctd.AccountMap : ctd.AccountMap[a] = n
        THEN CHOOSE a \in DOMAIN ctd.AccountMap : ctd.AccountMap[a] = n
        ELSE names[n]]

\* StoreData of the next block
NMStoreData(ctd) ==
    /\ nmHeight < MaxNMHeight
    /\ nmAccount' = applyAccountRows(nmAccount, ctd)
    /\ nmNameRow' = applyNameRows(nmNameRow, nmAccount, ctd)
    /\ nmHeight' = nmHeight + 1

NMInit ==
    /\ nmAccount = [a \in NMAddresses |-> NoName]
    /\ nmNameRow = [n \in NMNames |-> NoAddress]
    /\ nmHeight = 0

CallNMStoreData ==
    /\ nmHeight < MaxNMHeight
    /\ \E ctd \in NMBodies(nmAccount, nmNameRow, nmHeight + 1) :
           NMStoreData(ctd)
    /\ UNCHANGED nmOthers

InitNM ==
    /\ CoreIdle /\ LBIdle /\ STIdle /\ NMInit /\ ATIdle /\ GBRest
    /\ ExtIdle
NextNM == CallNMStoreData
SpecNM == InitNM /\ [][NextNM]_vars

\* C17: after any sequence of StoreData commits the name index agrees with
\* the account table: IsExistAccountName(n) holds and AddressByName(n) = a
\* exactly when an existing account with address a has name n, so two
\* existing accounts never share a name.
C17_NameIndexAgrees ==
    /\ \A n \in NMNames, a \in NMAddresses :
           (/\ IsExistAccountName(nmNameRow, n)
            /\ AddressByName(nmNameRow, n) = a) <=> nmAccount[a] = n
    /\ \A a, b \in NMAddresses :
           (a # b /\ nmAccount[a] # NoName) => nmAccount[a] # nmAccount[b]

(***************************************************************************)
(* Kernel.AddTransaction, called by two clients at once                    *)
(***************************************************************************)
\* the largest committed sequence of the sender
MaxATSeq == 1
\* the sequence window of AddTransaction
SeqWindow == 100
Callers == {1, 2}

\* account transactions of one sender: by sequence, and by whether the
\* signatures pass Transactor.Validate; a transaction is its own hash
ATTransactions ==
    {[seq |-> s, ok |-> TRUE] : s \in {1, SeqWindow + 1, SeqWindow + 2}} \cup
    {[seq |-> 2, ok |-> FALSE]}

NoTx == [seq |-> 0, ok |-> FALSE]
NoCall == [pc |-> "idle", tx |-> NoTx, seen |-> NoSeq, err |-> "nil",
           pushed |-> FALSE, queued |-> FALSE, overlap |-> FALSE]
Running(c) == c.pc \notin {"idle", "done"}
Other(p) == CHOOSE q \in Callers : q # p

\* a working map that never reports a transaction in work
HasNever(working, TxHash) == FALSE
\* _, has := kn.txWorkingMap[TxHash]
Has(working, TxHash) == TxHash \in working

\* a sequence check with no upper end
SeqErrNoUpper(seq, txSeq) == IF txSeq <= seq THEN "ErrPastSeq" ELSE "nil"
\* the sequence check of an account transaction
SeqErr(seq, txSeq) ==
    IF txSeq <= seq THEN "ErrPastSeq"
    ELSE IF txSeq > seq + SeqWindow THEN "ErrTooFarSeq"
    ELSE "nil"

\* TransactionPool.IsExist and TransactionPool.Push
IsExist(pool, TxHash) == TxHash \in pool
Push(pool, tx) == pool \cup {tx}

Returned(c, err) == [c EXCEPT !.pc = "done", !.err = err]

\* AddTransaction is called; the queue is below its limit
ATStart(p, tx) ==
    /\ ~Running(call[p])
    /\ call' = [q \in Callers |->
                   IF q = p
                   THEN [NoCall EXCEPT !.pc = "mark", !.tx = tx,
                                       !.overlap = Running(call[Other(p)])]
                   ELSE IF Running(call[q])
                   THEN [call[q] EXCEPT !.overlap = TRUE]
                   ELSE [call[q] EXCEPT !.overlap = FALSE]]
    /\ UNCHANGED <<txWorkingMap, txPool, txQueue, atSeq>>

\* under kn.Lock: the transaction is looked up in txWorkingMap and marked
ATMark(p) ==
    /\ call[p].pc = "mark"
    /\ IF Has(txWorkingMap, call[p].tx)
       THEN /\ call' = [call EXCEPT
                           ![p] = Returned(@, "ErrProcessingTransaction")]
            /\ UNCHANGED txWorkingMap
       ELSE /\ txWorkingMap' = txWorkingMap \cup {call[p].tx}
            /\ call' = [call EXCEPT ![p].pc = "exist"]
    /\ UNCHANGED <<txPool, txQueue, atSeq>>

\* kn.txPool.IsExist(TxHash)
ATExist(p) ==
    /\ call[p].pc = "exist"
    /\ call' = IF IsExist(txPool, call[p].tx)
               THEN [call EXCEPT ![p] = Returned(@, "ErrExistTransaction")]
               ELSE [call EXCEPT ![p].pc = "seq"]
    /\ UNCHANGED <<txWorkingMap, txPool, txQueue, atSeq>>

\* seq := loader.Seq(atx.From()) and the two comparisons
ATSeq(p) ==
    /\ call[p].pc = "seq"
    /\ LET err == SeqErr(atSeq, call[p].tx.seq)
       IN call' = IF err # "nil"
                  THEN [call EXCEPT ![p] = Returned([@ EXCEPT !.seen = atSeq],
                                                    err)]
                  ELSE [call EXCEPT ![p].pc = "validate", ![p].seen = atSeq]
    /\ UNCHANGED <<txWorkingMap, txPool, txQueue, atSeq>>

\* the signers are recovered and Transactor.Validate is called
ATValidate(p) ==
    /\ call[p].pc = "validate"
    /\ call' = IF call[p].tx.ok THEN [call EXCEPT ![p].pc = "push"]
               ELSE [call EXCEPT ![p] = Returned(@, "ErrInvalidSignature")]
    /\ UNCHANGED <<txWorkingMap, txPool, txQueue, atSeq>>

\* kn.txPool.Push(tx, sigs)
ATPush(p) ==
    /\ call[p].pc = "push"
    /\ txPool' = Push(txPool, call[p].tx)
    /\ call' = [call EXCEPT ![p].pc = "queue", ![p].pushed = TRUE]
    /\ UNCHANGED <<txWorkingMap, txQueue, atSeq>>

\* kn.txQueue.Push(TxHash, msg)
ATQueue(p) ==
    /\ call[p].pc = "queue"
    /\ txQueue' = txQueue \cup {call[p].tx}
    /\ call' = [call EXCEPT ![p].pc = "unmark", ![p].queued = TRUE]
    /\ UNCHANGED <<txWorkingMap, txPool, atSeq>>

\* under kn.Lock: the signers are cached and the mark is deleted
ATUnmark(p) ==
    /\ call[p].pc = "unmark"
    /\ txWorkingMap' = txWorkingMap \ {call[p].tx}
    /\ call' = [call EXCEPT ![p] = Returned(@, "nil")]
    /\ UNCHANGED <<txPool, txQueue, atSeq>>

\* a block with a transaction of the sender is committed meanwhile
ATCommit ==
    /\ atSeq < MaxATSeq
    /\ atSeq' = atSeq + 1
    /\ UNCHANGED <<txWorkingMap, txPool, txQueue, call>>

ATInit ==
    /\ txWorkingMap = {}
    /\ txPool = {}
    /\ txQueue = {}
    /\ atSeq = 0
    /\ call = [p \in Callers |-> NoCall]

CallAddTransaction ==
    /\ \E p \in Callers, tx \in ATTransactions : ATStart(p, tx)
    /\ UNCHANGED atOthers
StepMark == (\E p \in Callers : ATMark(p)) /\ UNCHANGED atOthers
StepExist == (\E p \in Callers : ATExist(p)) /\ UNCHANGED atOthers
StepSeq == (\E p \in Callers : ATSeq(p)) /\ UNCHANGED atOthers
StepValidate == (\E p \in Callers : ATValidate(p)) /\ UNCHANGED atOthers
StepPush == (\E p \in Callers : ATPush(p)) /\ UNCHANGED atOthers
StepQueue == (\E p \in Callers : ATQueue(p)) /\ UNCHANGED atOthers
StepUnmark == (\E p \in Callers : ATUnmark(p)) /\ UNCHANGED atOthers
StepCommit == ATCommit /\ UNCHANGED atOthers

InitAT ==
    /\ CoreIdle /\ LBIdle /\ STIdle /\ NMIdle /\ ATInit /\ GBRest
    /\ ExtIdle
NextAT ==
    \/ CallAddTransaction \/ StepMark \/ StepExist \/ StepSeq \/ StepValidate
    \/ StepPush \/ StepQueue \/ StepUnmark \/ StepCommit
SpecAT == InitAT /\ [][NextAT]_vars

C19_SeqWindow ==
    \A p \in Callers :
        LET c == call[p]
        IN /\ (c.pushed \/ c.queued \/ (c.pc = "done" /\ c.err = "nil")) =>
                  (c.seen # NoSeq /\ c.seen < c.tx.seq
                                  /\ c.tx.seq <= c.seen + 100)
           /\ (c.seen # NoSeq /\ c.tx.seq <= c.seen) =>
                  (c.pc = "done" /\ c.err = "ErrPastSeq"
                                 /\ ~c.pushed /\ ~c.queued)
           /\ (c.seen # NoSeq /\ c.tx.seq > c.seen + 100) =>
                  (c.pc = "done" /\ c.err = "ErrTooFarSeq"
                                 /\ ~c.pushed /\ ~c.queued)
           /\ (c.pc = "done" /\ c.err \in {"ErrPastSeq", "ErrTooFarSeq"}) =>
                  (c.seen # NoSeq /\ ~c.pushed /\ ~c.queued)
C19_Witness ==
    /\ call[1].pc = "done" /\ call[1].err = "nil"
    /\ call[1].tx.seq = 101 /\ call[1].seen = 1
    /\ call[2].pc = "done" /\ call[2].err = "ErrTooFarSeq"
    /\ call[2].tx.seq = 102 /\ call[2].seen = 1

(***************************************************************************)
(* Kernel.GenerateBlock over the transaction pool                          *)
(***************************************************************************)
\* the sequences submitted for the sender, and how many submissions are made
MaxGBSeq == 3
MaxSubmits == 3

\* account transactions of one sender: by sequence, and by whether
\* Transactor.Execute succeeds on them; two of them may have one sequence
GBTransactions == {[seq |-> s, exec |-> e] : s \in 1..MaxGBSeq, e \in BOOLEAN}

\* a pop that is given the store as its sequence cache
SeqCacheOfStore(ctxSeq, storeSeq) == storeSeq
\* kn.txPool.UnsafePop(ctx): the sequence cache the pop reads is the Context
SeqCacheOfContext(ctxSeq, storeSeq) == ctxSeq

\* TransactionPool.UnsafePop: the candidates whose sequence follows the
\* sequence of the Context
UnsafePop(pool, ctxSeq) == {tx \in pool : tx.seq = ctxSeq + 1}

GBIdle == [pc |-> "idle", seq |-> 0, body |-> <<>>]

\* a transaction is admitted by AddTransaction and pushed; Push waits while
\* GenerateBlock holds the pool lock
Submit(tx) ==
    /\ gbCtx.pc # "loop"
    /\ Len(gbSubmitted) < MaxSubmits
    /\ SeqErr(gbSeq, tx.seq) = "nil"
    /\ ~IsExist(gbPool, tx)
    /\ gbPool' = Push(gbPool, tx)
    /\ gbSubmitted' = Append(gbSubmitted, tx.seq)
    /\ UNCHANGED <<gbSeq, gbCtx, gbPopped>>

\* GenerateBlock is called with a fresh Context and takes the pool lock
GBStart ==
    /\ gbCtx.pc = "idle"
    /\ gbCtx' = [pc |-> "loop", seq |-> gbSeq, body |-> <<>>]
    /\ gbPopped' = <<>>
    /\ UNCHANGED <<gbPool, gbSeq, gbSubmitted>>

\* one turn of TxLoop: Snapshot, UnsafePop, Revert, then Execute; a
\* transaction whose execution fails is logged and left out
GBTurn ==
    /\ gbCtx.pc = "loop"
    /\ IF UnsafePop(gbPool, SeqCacheOfContext(gbCtx.seq, gbSeq)) = {}
       THEN /\ gbCtx' = [gbCtx EXCEPT !.pc = "built"]
            /\ UNCHANGED <<gbPool, gbPopped>>
       ELSE \E item \in UnsafePop(gbPool, SeqCacheOfContext(gbCtx.seq, gbSeq)) :
                /\ gbPool' = gbPool \ {item}
                /\ gbPopped' = Append(gbPopped, <<item.seq, gbCtx.seq>>)
                /\ gbCtx' = IF item.exec /\ item.seq = gbCtx.seq + 1
                            THEN [gbCtx EXCEPT
                                     !.seq = @ + 1,
                                     !.body = Append(@, item.seq)]
                            ELSE gbCtx
    /\ UNCHANGED <<gbSeq, gbSubmitted>>

\* the timer fires or MaxTransactionsPerBlock is reached
GBBreak ==
    /\ gbCtx.pc = "loop"
    /\ gbCtx' = [gbCtx EXCEPT !.pc = "built"]
    /\ UNCHANGED <<gbPool, gbSeq, gbPopped, gbSubmitted>>

\* the generated block is processed: the sequences of its Context are stored
GBCommit ==
    /\ gbCtx.pc = "built"
    /\ gbSeq' = gbCtx.seq
    /\ gbCtx' = GBIdle
    /\ UNCHANGED <<gbPool, gbPopped, gbSubmitted>>

\* the generated block is not accepted and its Context is dropped
GBDiscard ==
    /\ gbCtx.pc = "built"
    /\ gbCtx' = GBIdle
    /\ UNCHANGED <<gbPool, gbSeq, gbPopped, gbSubmitted>>

GBInit ==
    /\ gbPool = {}
    /\ gbSeq = 0
    /\ gbCtx = GBIdle
    /\ gbPopped = <<>>
    /\ gbSubmitted = <<>>

CallSubmit == (\E tx \in GBTransactions : Submit(tx)) /\ UNCHANGED gbOthers
CallGenerateBlock == GBStart /\ UNCHANGED gbOthers
StepTurn == GBTurn /\ UNCHANGED gbOthers
StepBreak == GBBreak /\ UNCHANGED gbOthers
StepProcess == GBCommit /\ UNCHANGED gbOthers
StepDiscard == GBDiscard /\ UNCHANGED gbOthers

InitGB ==
    /\ CoreIdle /\ LBIdle /\ STIdle /\ NMIdle /\ ATIdle /\ GBInit
    /\ ExtIdle
NextGB ==
    \/ CallSubmit \/ CallGenerateBlock \/ StepTurn \/ StepBreak
    \/ StepProcess \/ StepDiscard
SpecGB == InitGB /\ [][NextGB]_vars

\* C20: for one sender whose committed sequence is n, transactions with
\* sequences n+1, n+2, n+3 submitted in any order are popped by UnsafePop
\* during GenerateBlock in increasing sequence order, and a transaction with
\* sequence s is never popped while ctx.Seq(from) # s - 1.
C20_PoppedInSequenceOrder ==
    /\ \A i \in 1..Len(gbPopped) : gbPopped[i][2] = gbPopped[i][1] - 1
    /\ \A i, j \in 1..Len(gbPopped) :
           i < j => gbPopped[i][1] <= gbPopped[j][1]
C20_Witness ==
    /\ gbSubmitted = <<3, 2, 1>>
    /\ Len(gbPopped) = 3
    /\ gbPopped[1][1] = 1 /\ gbPopped[2][1] = 2 /\ gbPopped[3][1] = 3


(***************************************************************************)
(* The expiry queue of pooled transactions: Kernel.OnItemExpired           *)
(***************************************************************************)
\* the transactions handed to AddTransaction
MaxEQTx == 2
EQTransactions == 1..MaxEQTx

\* NewKernel: the expiry groups of txQueue, in seconds, in the order added
ExpireGroups == <<60, 600, 3600>>

\* AddTransaction admits tx: txPool.Push, then txQueue.Push puts it into the
\* first expiry group
EQAddTransaction(tx) ==
    /\ tx \notin eqAdded
    /\ eqAdded' = eqAdded \cup {tx}
    /\ eqPool' = eqPool \cup {tx}
    /\ eqQueue' = [eqQueue EXCEPT ![tx] = 1]
    /\ UNCHANGED <<eqSent, eqLeft, eqIncluded>>

\* Kernel.OnItemExpired: every handler broadcasts the transaction, and the
\* pool drops it when the group it left is the last
OnItemExpired(Interval, tx, IsLast) ==
    /\ eqSent' = [eqSent EXCEPT ![tx] = @ + 1]
    /\ eqPool' = IF IsLast THEN eqPool \ {tx} ELSE eqPool

\* ExpireQueue: the time of the group of tx is over; the handler is called
\* with the group's interval, and tx moves on to the next group, or out of
\* the queue after the last
Expire(tx) ==
    LET g == eqQueue[tx]
        IsLast == g = Len(ExpireGroups)
    IN /\ g > 0
       /\ OnItemExpired(ExpireGroups[g], tx, IsLast)
       /\ eqQueue' = [eqQueue EXCEPT ![tx] = IF IsLast THEN 0 ELSE g + 1]
       /\ eqLeft' = [eqLeft EXCEPT ![tx] = g]
       /\ UNCHANGED <<eqAdded, eqIncluded>>

\* Kernel.GenerateBlock: TxLoop pops transactions from the pool; the ones
\* whose Execute fails are logged and left out of the block, the others are
\* in the block it returns. The queue is not touched.
EQGenerateBlock(popped) ==
    /\ popped # {}
    /\ popped \subseteq eqPool
    /\ eqPool' = eqPool \ popped
    /\ UNCHANGED <<eqQueue, eqSent, eqLeft, eqAdded, eqIncluded>>

\* Kernel.Process, after StoreData: the transactions of the block leave the
\* pool and the queue
EQProcess(body) ==
    /\ body # {}
    /\ body \subseteq eqAdded \ eqIncluded
    /\ eqPool' = eqPool \ body
    /\ eqQueue' = [tx \in EQTransactions |->
                      IF tx \in body THEN 0 ELSE eqQueue[tx]]
    /\ eqIncluded' = eqIncluded \cup body
    /\ UNCHANGED <<eqSent, eqLeft, eqAdded>>

EQInit ==
    /\ eqPool = {}
    /\ eqQueue = [tx \in EQTransactions |-> 0]
    /\ eqSent = [tx \in EQTransactions |-> 0]
    /\ eqLeft = [tx \in EQTransactions |-> 0]
    /\ eqAdded = {}
    /\ eqIncluded = {}

CallEQAddTransaction ==
    (\E tx \in EQTransactions : EQAddTransaction(tx)) /\ UNCHANGED eqOthers
StepExpire ==
    (\E tx \in EQTransactions : Expire(tx)) /\ UNCHANGED eqOthers
CallEQGenerateBlock ==
    (\E popped \in SUBSET EQTransactions : EQGenerateBlock(popped))
    /\ UNCHANGED eqOthers
CallEQProcess ==
    (\E body \in SUBSET EQTransactions : EQProcess(body))
    /\ UNCHANGED eqOthers

InitEQ == OldIdle /\ EQInit /\ VRIdle /\ CLIdle /\ PGIdle
NextEQ ==
    \/ CallEQAddTransaction \/ StepExpire \/ CallEQGenerateBlock
    \/ CallEQProcess
SpecEQ == InitEQ /\ [][NextEQ]_vars

\* C21: a pooled transaction that is never included in a block is
\* re-broadcast through DoTransactionBroadcast each time it leaves an expiry
\* group (60 s, then 600 s, then 3600 s), and it is removed from the pool
\* exactly when it leaves the last group, not earlier.
C21_EvictedAtLastGroupOnly ==
    \A tx \in eqAdded \ eqIncluded :
        /\ eqSent[tx] = eqLeft[tx]
        /\ tx \notin eqPool <=> eqLeft[tx] = Len(ExpireGroups)


(***************************************************************************)
(* The observers' voting round: VoteRound, RoundVote and voteSorter        *)
(***************************************************************************)
\* the target heights a VoteRound is opened for
MaxVRHeight == 2
\* the failed rounds an observer goes through
MaxVRFails == 1

\* Config.ObserverKeyMap of the voting observers
VRObserverKeyMap == {1, 2, 3}
\* the observers whose VoteRound is followed
VRNodes == DOMAIN vrRound
\* the round votes and acks one target needs: more than half of the observers
VRMajority == Cardinality(VRObserverKeyMap) \div 2 + 1
\* the target heights votes are signed for
VRHeights == 1..(MaxVRHeight + 1)

EmptyState == 0
RoundVoteState == 1
RoundVoteAckState == 2
BlockVoteState == 3

\* RoundVote: the fields the agreement is about
RoundVote(h, t, f) ==
    [VoteTargetHeight |-> h, TimeoutCount |-> t, Formulator |-> f]
NoVote == RoundVote(0, 0, 0)
\* what an observer may vote: a timeout count and the formulator it names
VRContents == {<<0, 1>>, <<0, 2>>, <<1, 1>>}
\* the round vote observer p signs for target height h
VoteOf(p, h) == RoundVote(h, vrVotes[p][1], vrVotes[p][2])

NoVotes == [p \in VRObserverKeyMap |-> NoVote]
Filed(map) == {p \in VRObserverKeyMap : map[p] # NoVote}

\* a VoteRound whose first state is RoundVoteAck
NewVoteRoundAcked(TargetHeight) ==
    [RoundState |-> RoundVoteAckState,
     VoteTargetHeight |-> TargetHeight,
     VoteFailCount |-> 0,
     RoundVoteMessageMap |-> NoVotes,
     RoundVoteAckMessageMap |-> NoVotes,
     MinRoundVoteAck |-> NoVote,
     RoundVoteWaitMap |-> NoVotes,
     RoundVoteAckMessageWaitMap |-> NoVotes]

\* NewVoteRound
NewVoteRound(TargetHeight) ==
    [RoundState |-> RoundVoteState,
     VoteTargetHeight |-> TargetHeight,
     VoteFailCount |-> 0,
     RoundVoteMessageMap |-> NoVotes,
     RoundVoteAckMessageMap |-> NoVotes,
     MinRoundVoteAck |-> NoVote,
     RoundVoteWaitMap |-> NoVotes,
     RoundVoteAckMessageWaitMap |-> NoVotes]

\* voteSortItem of the round vote filed under p
voteSortItem(p, vote) == [PublicHash |-> p, Priority |-> vote.TimeoutCount]

\* an order on the priority alone
LessByPriority(a, b) == a.Priority < b.Priority

\* voteSorter.Less
voteSorterLess(a, b) ==
    IF a.Priority = b.Priority
    THEN a.PublicHash < b.PublicHash
    ELSE a.Priority < b.Priority

\* sort.Sort(voteSorter(votes)) and votes[0]: the observers whose item the
\* sort may put first, whatever order the map was read in
MinVotes(map) ==
    {p \in Filed(map) :
        \A q \in Filed(map) :
            ~voteSorterLess(voteSortItem(q, map[q]), voteSortItem(p, map[p]))}

\* the acks of map that carry the fields of the one filed under n
Agreeing(map, n) == {q \in Filed(map) : map[q] = map[n]}

\* a round vote for the current target reaches the round r of observer n:
\* it is filed under its sender; with VRMajority votes filed the minimum is
\* selected, the observer's own ack carries it and the round moves on to
\* RoundVoteAck. A round that is past RoundVote drops the vote.
FileRoundVote(n, p, vote, r) ==
    LET map == [r.RoundVoteMessageMap EXCEPT ![p] = vote]
    IN IF r.RoundState # RoundVoteState
       THEN vrRound' = [vrRound EXCEPT ![n] = r]
       ELSE IF Cardinality(Filed(map)) < VRMajority
       THEN vrRound' = [vrRound EXCEPT ![n] =
                           [r EXCEPT !.RoundVoteMessageMap = map]]
       ELSE \E m \in MinVotes(map) :
                vrRound' = [vrRound EXCEPT ![n] =
                    [r EXCEPT
                        !.RoundVoteMessageMap = map,
                        !.RoundState = RoundVoteAckState,
                        !.RoundVoteAckMessageMap = [@ EXCEPT ![n] = map[m]]]]

\* an ack for the current target reaches the round r of observer n: it is
\* filed under its sender; with VRMajority acks that agree with the
\* observer's own the round moves on to BlockVote. A round that is not in
\* RoundVoteAck drops the ack.
FileRoundVoteAck(n, p, ack, r) ==
    LET map == [r.RoundVoteAckMessageMap EXCEPT ![p] = ack]
    IN IF r.RoundState # RoundVoteAckState
       THEN vrRound' = [vrRound EXCEPT ![n] = r]
       ELSE IF Cardinality(Agreeing(map, n)) < VRMajority
       THEN vrRound' = [vrRound EXCEPT ![n] =
                           [r EXCEPT !.RoundVoteAckMessageMap = map]]
       ELSE vrRound' = [vrRound EXCEPT ![n] =
                [r EXCEPT
                    !.RoundVoteAckMessageMap = map,
                    !.MinRoundVoteAck = map[n],
                    !.RoundState = BlockVoteState]]

\* observer n receives the round vote p signed for height h: a vote for a
\* lower target is discarded, a vote for a higher target is put into
\* RoundVoteWaitMap under its sender
OnRoundVote(n, p, h) ==
    LET r == vrRound[n]
    IN IF h < r.VoteTargetHeight
       THEN UNCHANGED <<vrRound, vrParked>>
       ELSE IF h > r.VoteTargetHeight
       THEN /\ vrRound' = [vrRound EXCEPT
                              ![n].RoundVoteWaitMap[p] = VoteOf(p, h)]
            /\ vrParked' = vrParked \cup {<<n, p, h>>}
       ELSE /\ FileRoundVote(n, p, VoteOf(p, h), r)
            /\ vrParked' = vrParked \ {<<n, p, h>>}

\* the round vote held in RoundVoteWaitMap under p is handled once its
\* height is the target
ReplayRoundVote(n, p) ==
    LET r == vrRound[n]
        vote == r.RoundVoteWaitMap[p]
    IN /\ vote # NoVote
       /\ vote.VoteTargetHeight = r.VoteTargetHeight
       /\ FileRoundVote(n, p, vote,
                        [r EXCEPT !.RoundVoteWaitMap[p] = NoVote])
       /\ vrParked' = vrParked \ {<<n, p, vote.VoteTargetHeight>>}

\* the acks observer p may send: the one it filed for itself, or, for an
\* observer whose round is not followed, the minimum of the round votes of
\* all observers for a height
AcksOf(p) ==
    IF p \in VRNodes
    THEN {vrRound[p].RoundVoteAckMessageMap[p]} \ {NoVote}
    ELSE {VoteOf(m, h) :
              m \in MinVotes([q \in VRObserverKeyMap |-> VoteOf(q, 1)]),
              h \in 1..MaxVRHeight}

\* observer n receives an ack of p
OnRoundVoteAck(n, p, ack) ==
    LET r == vrRound[n]
    IN /\ IF ack.VoteTargetHeight < r.VoteTargetHeight
          THEN UNCHANGED vrRound
          ELSE IF ack.VoteTargetHeight > r.VoteTargetHeight
          THEN vrRound' = [vrRound EXCEPT
                              ![n].RoundVoteAckMessageWaitMap[p] = ack]
          ELSE FileRoundVoteAck(n, p, ack, r)
       /\ UNCHANGED vrParked

\* the ack held in RoundVoteAckMessageWaitMap under p is handled once its
\* height is the target
ReplayRoundVoteAck(n, p) ==
    LET r == vrRound[n]
        ack == r.RoundVoteAckMessageWaitMap[p]
    IN /\ ack # NoVote
       /\ ack.VoteTargetHeight = r.VoteTargetHeight
       /\ FileRoundVoteAck(n, p, ack,
                           [r EXCEPT !.RoundVoteAckMessageWaitMap[p] = NoVote])
       /\ UNCHANGED vrParked

\* the block of the target is voted and processed: a VoteRound for the next
\* target is opened, and it takes over what the wait-maps hold
CommitRound(n) ==
    LET r == vrRound[n]
    IN /\ r.RoundState = BlockVoteState
       /\ r.VoteTargetHeight < MaxVRHeight
       /\ vrRound' = [vrRound EXCEPT ![n] =
              [NewVoteRound(r.VoteTargetHeight + 1) EXCEPT
                  !.RoundVoteWaitMap = r.RoundVoteWaitMap,
                  !.RoundVoteAckMessageWaitMap = r.RoundVoteAckMessageWaitMap]]
       /\ UNCHANGED vrParked

\* the round timer ends a round that has not led to a block: VoteFailCount
\* is incremented and the round votes of the same target start again
RoundTimeout(n) ==
    LET r == vrRound[n]
    IN /\ r.RoundState \in {RoundVoteAckState, BlockVoteState}
       /\ r.VoteFailCount < MaxVRFails
       /\ vrRound' = [vrRound EXCEPT ![n] =
              [r EXCEPT !.RoundState = RoundVoteState,
                        !.VoteFailCount = @ + 1,
                        !.RoundVoteMessageMap = NoVotes,
                        !.RoundVoteAckMessageMap = NoVotes,
                        !.MinRoundVoteAck = NoVote]]
       /\ UNCHANGED vrParked

VRInit(contents) ==
    /\ vrVotes \in [VRObserverKeyMap -> contents]
    /\ vrParked = {}

\* an observer receives a round vote for its target
RecvCurrentRoundVote ==
    /\ \E n \in VRNodes, p \in VRObserverKeyMap :
           OnRoundVote(n, p, vrRound[n].VoteTargetHeight)
    /\ UNCHANGED <<vrVotes, vrOthers>>
RecvRoundVote ==
    /\ \E n \in VRNodes, p \in VRObserverKeyMap, h \in VRHeights :
           OnRoundVote(n, p, h)
    /\ UNCHANGED <<vrVotes, vrOthers>>
StepReplayRoundVote ==
    /\ \E n \in VRNodes, p \in VRObserverKeyMap : ReplayRoundVote(n, p)
    /\ UNCHANGED <<vrVotes, vrOthers>>
RecvRoundVoteAck ==
    /\ \E n \in VRNodes :
           \E p \in VRObserverKeyMap \ {n} :
               \E ack \in AcksOf(p) : OnRoundVoteAck(n, p, ack)
    /\ UNCHANGED <<vrVotes, vrOthers>>
\* an observer receives an ack for its target
RecvCurrentRoundVoteAck ==
    /\ \E n \in VRNodes :
           \E p \in VRObserverKeyMap \ {n} :
               \E ack \in AcksOf(p) :
                   /\ ack.VoteTargetHeight = vrRound[n].VoteTargetHeight
                   /\ OnRoundVoteAck(n, p, ack)
    /\ UNCHANGED <<vrVotes, vrOthers>>
StepReplayRoundVoteAck ==
    /\ \E n \in VRNodes, p \in VRObserverKeyMap : ReplayRoundVoteAck(n, p)
    /\ UNCHANGED <<vrVotes, vrOthers>>
StepCommitRound ==
    (\E n \in VRNodes : CommitRound(n)) /\ UNCHANGED <<vrVotes, vrOthers>>
StepRoundTimeout ==
    (\E n \in VRNodes : RoundTimeout(n)) /\ UNCHANGED <<vrVotes, vrOthers>>

\* one observer through its rounds
InitVR ==
    /\ OldIdle /\ EQIdle /\ CLIdle /\ PGIdle /\ VRInit({<<0, 1>>, <<0, 2>>})
    /\ vrRound = [n \in {1} |-> NewVoteRound(1)]
NextVR ==
    \/ RecvRoundVote \/ StepReplayRoundVote \/ RecvRoundVoteAck
    \/ StepReplayRoundVoteAck \/ StepCommitRound \/ StepRoundTimeout
SpecVR == InitVR /\ [][NextVR]_vars

\* one observer that is handed the votes and acks of its target only
NextVR1 ==
    \/ RecvCurrentRoundVote \/ RecvCurrentRoundVoteAck \/ StepCommitRound
    \/ StepRoundTimeout
SpecVR1 == InitVR /\ [][NextVR1]_vars

\* two observers that collect the round votes of one target
InitVR2 ==
    /\ OldIdle /\ EQIdle /\ CLIdle /\ PGIdle /\ VRInit(VRContents)
    /\ vrRound = [n \in {1, 2} |-> NewVoteRound(1)]
NextVR2 == RecvCurrentRoundVote \/ StepRoundTimeout
SpecVR2 == InitVR2 /\ [][NextVR2]_vars

\* C22: two honest observers that have collected the same set of at least
\* floor(N/2)+1 valid round votes for the same target height, in any arrival
\* order, select the identical minimum round vote, and so carry the same
\* formulator and timeout count into RoundVoteAck.
Selected(n) == vrRound[n].RoundVoteAckMessageMap[n]
SameVotes(a, b) ==
    /\ vrRound[a].RoundState >= RoundVoteAckState
    /\ vrRound[b].RoundState >= RoundVoteAckState
    /\ vrRound[a].VoteTargetHeight = vrRound[b].VoteTargetHeight
    /\ vrRound[a].RoundVoteMessageMap = vrRound[b].RoundVoteMessageMap
C22_SameVotesSameSelection ==
    \A a, b \in VRNodes : SameVotes(a, b) => Selected(a) = Selected(b)
C22_Witness ==
    /\ SameVotes(1, 2)
    /\ \E p, q \in Filed(vrRound[1].RoundVoteMessageMap) :
           /\ vrRound[1].RoundVoteMessageMap[p].TimeoutCount =
                  vrRound[1].RoundVoteMessageMap[q].TimeoutCount
           /\ vrRound[1].RoundVoteMessageMap[p].Formulator #
                  vrRound[1].RoundVoteMessageMap[q].Formulator

\* C23: an observer's VoteRound state only moves RoundVote -> RoundVoteAck ->
\* BlockVote and then to RoundVote of a new target: it enters RoundVoteAck
\* only after at least floor(N/2)+1 distinct valid round votes for the
\* current target are filed, and enters BlockVote only after at least
\* floor(N/2)+1 acks whose consensus fields agree with its selected round
\* vote; it never skips a phase.
PhaseEntered ==
    \A n \in VRNodes :
        /\ vrRound[n].RoundState >= RoundVoteAckState =>
               Cardinality(Filed(vrRound[n].RoundVoteMessageMap)) >= VRMajority
        /\ vrRound[n].RoundState = BlockVoteState =>
               Cardinality(Agreeing(vrRound[n].RoundVoteAckMessageMap, n))
                   >= VRMajority
Moved(n) ==
    \/ vrRound'[n].RoundState # vrRound[n].RoundState
    \/ vrRound'[n].VoteTargetHeight # vrRound[n].VoteTargetHeight
Forward(n) ==
    \/ /\ vrRound[n].RoundState = RoundVoteState
       /\ vrRound'[n].RoundState = RoundVoteAckState
       /\ vrRound'[n].VoteTargetHeight = vrRound[n].VoteTargetHeight
    \/ /\ vrRound[n].RoundState = RoundVoteAckState
       /\ vrRound'[n].RoundState = BlockVoteState
       /\ vrRound'[n].VoteTargetHeight = vrRound[n].VoteTargetHeight
    \/ /\ vrRound[n].RoundState = BlockVoteState
       /\ vrRound'[n].RoundState = RoundVoteState
       /\ vrRound'[n].VoteTargetHeight > vrRound[n].VoteTargetHeight
\* the round timer sends a round back to the round votes of its target
Restarted(n) ==
    /\ vrRound[n].RoundState \in {RoundVoteAckState, BlockVoteState}
    /\ vrRound'[n].RoundState = RoundVoteState
    /\ vrRound'[n].VoteTargetHeight = vrRound[n].VoteTargetHeight
    /\ vrRound'[n].VoteFailCount = vrRound[n].VoteFailCount + 1
C24_ParkedVotesAreKept ==
    \A t \in vrParked :
        vrRound[t[1]].VoteTargetHeight <= t[3] =>
            vrRound[t[1]].RoundVoteWaitMap[t[2]] = VoteOf(t[2], t[3])


(***************************************************************************)
(* Close, the close locks and the kernel mutex                             *)
(***************************************************************************)
\* the blocks Process stores and the transactions the pool takes
MaxCLHeight == 1
MaxCLPool == 1

\* the goroutines that call the kernel and the store
CLGoroutines == {1, 2}

KernelCalls == {"Screening", "CheckFork", "Validate", "Process",
                "AddTransaction", "GenerateBlock"}
\* the kernel calls that take the kernel mutex
Mutexed == {"Validate", "Process", "AddTransaction"}
StoreReads == {"Height", "Hash", "Header", "Data", "Seq", "Account",
               "AccountData", "CustomData", "LockedBalances", "UTXO", "Events"}

\* sync.RWMutex: a goroutine that waits in Lock keeps new readers out
NoLock == [r |-> {}, w |-> 0, q |-> {}]
CanRLock(l) == l.w = 0 /\ l.q = {}
RLock(l, t) == [l EXCEPT !.r = @ \cup {t}]
RUnlock(l, t) == [l EXCEPT !.r = @ \ {t}]
LockRequest(l, t) == [l EXCEPT !.q = @ \cup {t}]
CanLock(l) == l.r = {} /\ l.w = 0
Lock(l, t) == [l EXCEPT !.w = t, !.q = @ \ {t}]
Unlock(l) == [l EXCEPT !.w = 0]

\* signatures given to CheckFork: the generator's, then the public hashes
\* the observers' signatures recover to
CFInputs == {<<1, 11, 12, 13>>, <<1, 11, 12>>, <<1, 11, 12, 13, 14>>,
             <<1, 11, 12, 12>>, <<1, 11, 12, 99>>}

\* a kernel call that does not look at isClose
KernelEntryOpen(isClose) == "nil"
\* the head of every kernel call, under closeLock.RLock
KernelEntry(isClose) == IF isClose THEN "ErrKernelClosed" ELSE "nil"

\* a fork check that counts the signatures only
CheckForkByCount(sigs) ==
    IF Len(sigs) # SignatureCount THEN "nil" ELSE "ErrForkDetected"
\* Kernel.CheckFork, past the isClose check
CheckFork(sigs) ==
    IF Len(sigs) # SignatureCount THEN "nil"
    ELSE IF ValidateSignaturesMajority(Tail(sigs)) # "nil" THEN "nil"
    ELSE "ErrForkDetected"

\* what a read of a closed store returns
ClosedAnswer(op) ==
    CASE op \in {"Height", "Seq"} -> "0"
      [] op \in {"AccountData", "CustomData"} -> "nil"
      [] OTHER -> "ErrStoreClosed"

CLArg(sigs, isClose, after) ==
    [sigs |-> sigs, isClose |-> isClose, after |-> after]

\* a kernel call begins: closeLock.RLock, then the isClose check
KernelEnter(t, op, sigs) ==
    /\ clPc[t] = "idle"
    /\ CanRLock(knCloseLock)
    /\ op = "Process" => clHeight < MaxCLHeight
    /\ op = "AddTransaction" => clPool < MaxCLPool
    /\ clOp' = [clOp EXCEPT ![t] = op]
    /\ clArg' = [clArg EXCEPT ![t] = CLArg(sigs, knIsClose, clClosed.kernel)]
    /\ IF KernelEntry(knIsClose) # "nil"
       THEN /\ clRet' = [clRet EXCEPT ![t] = KernelEntry(knIsClose)]
            /\ UNCHANGED <<clPc, knCloseLock>>
       ELSE /\ clRet' = [clRet EXCEPT ![t] = "none"]
            /\ knCloseLock' = RLock(knCloseLock, t)
            /\ clPc' = [clPc EXCEPT ![t] =
                           IF op \in Mutexed THEN "mutex" ELSE "body"]
    /\ UNCHANGED <<knMutex, knIsClose, stCloseLock, stIsClose, clHeight,
                   clPool, clClosed>>

\* kn.Lock(): Validate and Process hold the mutex to their end;
\* AddTransaction marks the hash in txWorkingMap and unlocks at once
KernelMutex(t) ==
    /\ clPc[t] = "mutex"
    /\ knMutex = 0
    /\ knMutex' = IF clOp[t] = "AddTransaction" THEN 0 ELSE t
    /\ clPc' = [clPc EXCEPT ![t] = "body"]
    /\ UNCHANGED <<clOp, clArg, clRet, knCloseLock, knIsClose, stCloseLock,
                   stIsClose, clHeight, clPool, clClosed>>

\* the body of a kernel call, and its deferred unlocks. Validate and Process
\* read the store, Process stores the block, GenerateBlock pops the pool,
\* AddTransaction pushes and has the hash to unmark yet.
KernelBody(t) ==
    LET op == clOp[t]
        done(ret) ==
            /\ clRet' = [clRet EXCEPT ![t] = ret]
            /\ clPc' = [clPc EXCEPT ![t] = "idle"]
            /\ knMutex' = IF knMutex = t THEN 0 ELSE knMutex
            /\ knCloseLock' = RUnlock(knCloseLock, t)
    IN /\ clPc[t] = "body"
       /\ op \in KernelCalls
       /\ op \in {"Validate", "Process"} => CanRLock(stCloseLock)
       /\ CASE op = "CheckFork" ->
                   done(CheckFork(clArg[t].sigs))
                   /\ UNCHANGED <<clHeight, clPool>>
            [] op = "Process" ->
                   /\ done(IF stIsClose THEN "ErrStoreClosed" ELSE "nil")
                   /\ clHeight' = IF stIsClose THEN clHeight ELSE clHeight + 1
                   /\ UNCHANGED clPool
            [] op = "GenerateBlock" ->
                   done("nil") /\ clPool' = 0 /\ UNCHANGED clHeight
            [] op = "AddTransaction" ->
                   /\ clPool' = clPool + 1
                   /\ clPc' = [clPc EXCEPT ![t] = "unmark"]
                   /\ UNCHANGED <<clRet, knMutex, knCloseLock, clHeight>>
            [] OTHER -> done("nil") /\ UNCHANGED <<clHeight, clPool>>
       /\ UNCHANGED <<clOp, clArg, knIsClose, stCloseLock, stIsClose,
                      clClosed>>

\* AddTransaction: kn.Lock(), the hash leaves txWorkingMap, kn.Unlock()
KernelUnmark(t) ==
    /\ clPc[t] = "unmark"
    /\ knMutex = 0
    /\ clRet' = [clRet EXCEPT ![t] = "nil"]
    /\ clPc' = [clPc EXCEPT ![t] = "idle"]
    /\ knCloseLock' = RUnlock(knCloseLock, t)
    /\ UNCHANGED <<clOp, clArg, knMutex, knIsClose, stCloseLock, stIsClose,
                   clHeight, clPool, clClosed>>

\* Kernel.Close: closeLock.Lock()
KernelCloseRequest(t) ==
    /\ clPc[t] = "idle"
    /\ ~clClosed.called
    /\ clOp' = [clOp EXCEPT ![t] = "Kernel.Close"]
    /\ clArg' = [clArg EXCEPT ![t] = CLArg(<<>>, knIsClose, FALSE)]
    /\ clRet' = [clRet EXCEPT ![t] = "none"]
    /\ clPc' = [clPc EXCEPT ![t] = "kc-lock"]
    /\ knCloseLock' = LockRequest(knCloseLock, t)
    /\ clClosed' = [clClosed EXCEPT !.called = TRUE]
    /\ UNCHANGED <<knMutex, knIsClose, stCloseLock, stIsClose, clHeight,
                   clPool>>
KernelCloseLock(t) ==
    /\ clPc[t] = "kc-lock"
    /\ CanLock(knCloseLock)
    /\ knCloseLock' = Lock(knCloseLock, t)
    /\ clPc' = [clPc EXCEPT ![t] = "kc-mutex"]
    /\ UNCHANGED <<clOp, clArg, clRet, knMutex, knIsClose, stCloseLock,
                   stIsClose, clHeight, clPool, clClosed>>
\* kn.Lock(), isClose = true, and store.Close() asks for the store's lock
KernelCloseMutex(t) ==
    /\ clPc[t] = "kc-mutex"
    /\ knMutex = 0
    /\ knMutex' = t
    /\ knIsClose' = TRUE
    /\ stCloseLock' = LockRequest(stCloseLock, t)
    /\ clPc' = [clPc EXCEPT ![t] = "kc-store"]
    /\ UNCHANGED <<clOp, clArg, clRet, knCloseLock, stIsClose, clHeight,
                   clPool, clClosed>>
\* store.Close() closes the store, and the deferred unlocks run
KernelCloseStore(t) ==
    /\ clPc[t] = "kc-store"
    /\ CanLock(stCloseLock)
    /\ stIsClose' = TRUE
    /\ stCloseLock' = Unlock(Lock(stCloseLock, t))
    /\ knMutex' = 0
    /\ knCloseLock' = Unlock(knCloseLock)
    /\ clRet' = [clRet EXCEPT ![t] = "nil"]
    /\ clPc' = [clPc EXCEPT ![t] = "idle"]
    /\ clClosed' = [clClosed EXCEPT !.kernel = TRUE, !.store = TRUE,
                                    !.height = clHeight, !.pool = clPool]
    /\ UNCHANGED <<clOp, clArg, knIsClose, clHeight, clPool>>

\* Store.Close called on the store itself
StoreCloseRequest(t) ==
    /\ clPc[t] = "idle"
    /\ ~clClosed.called
    /\ clOp' = [clOp EXCEPT ![t] = "Store.Close"]
    /\ clArg' = [clArg EXCEPT ![t] = CLArg(<<>>, stIsClose, FALSE)]
    /\ clRet' = [clRet EXCEPT ![t] = "none"]
    /\ clPc' = [clPc EXCEPT ![t] = "sc-lock"]
    /\ stCloseLock' = LockRequest(stCloseLock, t)
    /\ clClosed' = [clClosed EXCEPT !.called = TRUE]
    /\ UNCHANGED <<knCloseLock, knMutex, knIsClose, stIsClose, clHeight,
                   clPool>>
StoreCloseLock(t) ==
    /\ clPc[t] = "sc-lock"
    /\ CanLock(stCloseLock)
    /\ stIsClose' = TRUE
    /\ stCloseLock' = Unlock(Lock(stCloseLock, t))
    /\ clRet' = [clRet EXCEPT ![t] = "nil"]
    /\ clPc' = [clPc EXCEPT ![t] = "idle"]
    /\ clClosed' = [clClosed EXCEPT !.store = TRUE]
    /\ UNCHANGED <<clOp, clArg, knCloseLock, knMutex, knIsClose, clHeight,
                   clPool>>

\* a public read of the store: closeLock.RLock, the isClose check, the read
StoreRead(t, op) ==
    /\ clPc[t] = "idle"
    /\ CanRLock(stCloseLock)
    /\ clOp' = [clOp EXCEPT ![t] = op]
    /\ clArg' = [clArg EXCEPT ![t] = CLArg(<<>>, stIsClose, clClosed.store)]
    /\ clRet' = [clRet EXCEPT ![t] =
                    IF stIsClose THEN ClosedAnswer(op) ELSE "value"]
    /\ UNCHANGED <<clPc, knCloseLock, knMutex, knIsClose, stCloseLock,
                   stIsClose, clHeight, clPool, clClosed>>

\* Store.StoreGenesis: closeLock.RLock and the isClose check
StoreGenesisEnter(t) ==
    /\ clPc[t] = "idle"
    /\ CanRLock(stCloseLock)
    /\ clOp' = [clOp EXCEPT ![t] = "StoreGenesis"]
    /\ clArg' = [clArg EXCEPT ![t] = CLArg(<<>>, stIsClose, clClosed.store)]
    /\ IF stIsClose
       THEN /\ clRet' = [clRet EXCEPT ![t] = "ErrStoreClosed"]
            /\ UNCHANGED <<clPc, stCloseLock>>
       ELSE /\ clRet' = [clRet EXCEPT ![t] = "none"]
            /\ clPc' = [clPc EXCEPT ![t] = "sg-height"]
            /\ stCloseLock' = RLock(stCloseLock, t)
    /\ UNCHANGED <<knCloseLock, knMutex, knIsClose, stIsClose, clHeight,
                   clPool, clClosed>>
\* st.Height() inside StoreGenesis takes closeLock.RLock once more; then
\* the genesis rows are written and the deferred RUnlock runs
StoreGenesisHeight(t) ==
    /\ clPc[t] = "sg-height"
    /\ CanRLock(stCloseLock)
    /\ clRet' = [clRet EXCEPT ![t] =
                    IF clHeight > 0 THEN "ErrAlreadyGenesised" ELSE "nil"]
    /\ clPc' = [clPc EXCEPT ![t] = "idle"]
    /\ stCloseLock' = RUnlock(stCloseLock, t)
    /\ UNCHANGED <<clOp, clArg, knCloseLock, knMutex, knIsClose, stIsClose,
                   clHeight, clPool, clClosed>>

CLInit ==
    /\ clOp = [t \in CLGoroutines |-> "none"]
    /\ clPc = [t \in CLGoroutines |-> "idle"]
    /\ clArg = [t \in CLGoroutines |-> CLArg(<<>>, FALSE, FALSE)]
    /\ clRet = [t \in CLGoroutines |-> "none"]
    /\ knCloseLock = NoLock
    /\ knMutex = 0
    /\ knIsClose = FALSE
    /\ stCloseLock = NoLock
    /\ stIsClose = FALSE
    /\ clHeight = 0
    /\ clPool = 0
    /\ clClosed = [called |-> FALSE, kernel |-> FALSE, store |-> FALSE,
                   height |-> 0, pool |-> 0]

CallKernel ==
    /\ \E t \in CLGoroutines :
           \/ \E op \in KernelCalls \ {"CheckFork"} : KernelEnter(t, op, <<>>)
           \/ \E sigs \in CFInputs : KernelEnter(t, "CheckFork", sigs)
    /\ UNCHANGED clOthers
StepKernelMutex ==
    (\E t \in CLGoroutines : KernelMutex(t)) /\ UNCHANGED clOthers
StepKernelBody ==
    (\E t \in CLGoroutines : KernelBody(t)) /\ UNCHANGED clOthers
StepKernelUnmark ==
    (\E t \in CLGoroutines : KernelUnmark(t)) /\ UNCHANGED clOthers
CallKernelClose ==
    (\E t \in CLGoroutines : KernelCloseRequest(t)) /\ UNCHANGED clOthers
StepKernelCloseLock ==
    (\E t \in CLGoroutines : KernelCloseLock(t)) /\ UNCHANGED clOthers
StepKernelCloseMutex ==
    (\E t \in CLGoroutines : KernelCloseMutex(t)) /\ UNCHANGED clOthers
StepKernelCloseStore ==
    (\E t \in CLGoroutines : KernelCloseStore(t)) /\ UNCHANGED clOthers
CallStoreClose ==
    (\E t \in CLGoroutines : StoreCloseRequest(t)) /\ UNCHANGED clOthers
StepStoreCloseLock ==
    (\E t \in CLGoroutines : StoreCloseLock(t)) /\ UNCHANGED clOthers
CallStoreRead ==
    /\ \E t \in CLGoroutines, op \in StoreReads : StoreRead(t, op)
    /\ UNCHANGED clOthers
CallStoreGenesis ==
    (\E t \in CLGoroutines : StoreGenesisEnter(t)) /\ UNCHANGED clOthers
StepStoreGenesisHeight ==
    (\E t \in CLGoroutines : StoreGenesisHeight(t)) /\ UNCHANGED clOthers

\* a call in progress takes its next step
StepCL ==
    \/ StepKernelMutex \/ StepKernelBody \/ StepKernelUnmark
    \/ StepKernelCloseLock \/ StepKernelCloseMutex \/ StepKernelCloseStore
    \/ StepStoreCloseLock \/ StepStoreGenesisHeight

InitCL == OldIdle /\ EQIdle /\ VRIdle /\ PGIdle /\ CLInit
NextCL ==
    \/ CallKernel \/ StepKernelMutex \/ StepKernelBody \/ StepKernelUnmark
    \/ CallKernelClose \/ StepKernelCloseLock \/ StepKernelCloseMutex
    \/ StepKernelCloseStore \/ CallStoreClose \/ StepStoreCloseLock
    \/ CallStoreRead \/ CallStoreGenesis \/ StepStoreGenesisHeight
SpecCL == InitCL /\ [][NextCL]_vars

\* C25: Store.Close and Kernel.Close invoked concurrently with in-flight
\* public calls always terminate: every in-flight call completes and Close
\* returns, with no deadlock between the close write-lock and readers, also
\* for a call that takes the close read-lock again while it holds it
\* (StoreGenesis calling Height). While a call is in progress, some call in
\* progress can take its next step.
C25_CallsCanGoOn ==
    (\E t \in CLGoroutines : clPc[t] # "idle") => ENABLED StepCL

\* C26: after Kernel.Close has returned, every call to Screening, CheckFork,
\* Validate, Process, AddTransaction and GenerateBlock fails with
\* KernelClosed and changes no store, rank-table or pool state.
C26_ClosedKernelRejects ==
    /\ \A t \in CLGoroutines :
           clOp[t] \in KernelCalls /\ clArg[t].after =>
               clPc[t] = "idle" /\ clRet[t] = "ErrKernelClosed"
    /\ clClosed.kernel =>
           clHeight = clClosed.height /\ clPool = clClosed.pool
C26_Witness ==
    \E t, u \in CLGoroutines :
        /\ clOp[t] = "Process" /\ clArg[t].after
        /\ clOp[u] = "AddTransaction" /\ clArg[u].after
        /\ t # u

\* C27: after Store.Close has returned, every public read of the Store
\* (Height, Hash, Header, Data, Seq, Account, AccountData, CustomData,
\* LockedBalances, UTXO, Events) is rejected with StoreClosed rather than
\* returning a value.
C27_ClosedStoreRejects ==
    \A t \in CLGoroutines :
        clOp[t] \in StoreReads /\ clArg[t].after =>
            clRet[t] = "ErrStoreClosed"

\* C28: at most one of Validate, Process and GenerateBlock executes at a
\* time on one Kernel; in particular GenerateBlock never runs concurrently
\* with a Process that is committing a block.
C28_OneAtATime ==
    Cardinality({t \in CLGoroutines :
                    /\ clPc[t] = "body"
                    /\ clOp[t] \in {"Validate", "Process", "GenerateBlock"}})
        <= 1


\* the observers' signatures are a majority of distinct observer keys
ValidMajority(obs) ==
    /\ Len(obs) > Cardinality(ObserverKeyMap) \div 2
    /\ \A i \in 1..Len(obs) : obs[i] \in ObserverKeyMap
    /\ \A i, j \in 1..Len(obs) : i # j => obs[i] # obs[j]
ForkDecision(sigs) ==
    IF /\ Len(sigs) = Cardinality(ObserverKeyMap) \div 2 + 2
       /\ ValidMajority(Tail(sigs))
    THEN "ErrForkDetected"
    ELSE "nil"
CheckForkReturned(t) == clOp[t] = "CheckFork" /\ clPc[t] = "idle"

PGConns == {<<"ObserverMesh", 1>>, <<"Mesh", 1>>}

pingCountLimit == 3

\* ObserverMesh.handleConnection pings on a time.Ticker, which fires every
\* 10 seconds; Mesh.handleConnection pings on a time.Timer, which fires once
\* and is never Reset
FiresAgain(c) == c[1] = "ObserverMesh"

\* the ping goroutine, on a firing of its timer: the ping is sent; the peer
\* is disconnected when Send fails or when the count passes the limit
Ping(c, sent) ==
    /\ pgConn[c]
    /\ pgArmed[c]
    /\ pgArmed' = [pgArmed EXCEPT ![c] = FiresAgain(c)]
    /\ IF ~sent
       THEN /\ pgConn' = [pgConn EXCEPT ![c] = FALSE]
            /\ UNCHANGED pgCount
       ELSE /\ pgCount' = [pgCount EXCEPT ![c] = @ + 1]
            /\ pgConn' = [pgConn EXCEPT ![c] = pgCount[c] + 1 <= pingCountLimit]
    /\ UNCHANGED pgSilent

\* the read loop: ReadMessageData returns a frame and the count is set to 0
Frame(c) ==
    /\ pgConn[c]
    /\ ~pgSilent[c]
    /\ pgCount' = [pgCount EXCEPT ![c] = 0]
    /\ UNCHANGED <<pgConn, pgArmed, pgSilent>>

\* the peer sends nothing from now on
Silence(c) ==
    /\ pgConn[c]
    /\ ~pgSilent[c]
    /\ pgSilent' = [pgSilent EXCEPT ![c] = TRUE]
    /\ UNCHANGED <<pgCount, pgConn, pgArmed>>

PGInit ==
    /\ pgCount = [c \in PGConns |-> 0]
    /\ pgConn = [c \in PGConns |-> TRUE]
    /\ pgArmed = [c \in PGConns |-> TRUE]
    /\ pgSilent = [c \in PGConns |-> FALSE]

StepPing == (\E c \in PGConns : Ping(c, TRUE)) /\ UNCHANGED pgOthers
StepPingFails == (\E c \in PGConns : Ping(c, FALSE)) /\ UNCHANGED pgOthers
StepFrame == (\E c \in PGConns : Frame(c)) /\ UNCHANGED pgOthers
StepSilence == (\E c \in PGConns : Silence(c)) /\ UNCHANGED pgOthers

InitPG == OldIdle /\ EQIdle /\ VRIdle /\ CLIdle /\ PGInit
NextPG == StepPing \/ StepPingFails \/ StepFrame \/ StepSilence
\* a timer that is set does fire
SpecPG ==
    /\ InitPG
    /\ [][NextPG]_vars
    /\ \A c \in PGConns : WF_vars(Ping(c, TRUE) /\ UNCHANGED pgOthers)

\* C29: in both the observer mesh and the formulator mesh, a connection on
\* which no inbound frame arrives keeps being pinged every 10 seconds and is
\* eventually disconnected once more than 3 consecutive pings have gone
\* unanswered; any inbound frame resets the unanswered-ping counter to 0.
C29_SilentPeerIsDisconnected ==
    \A c \in PGConns : pgSilent[c] ~> ~pgConn[c]

(***************************************************************************)
(* Consensus.ProcessContext and the order of the account maps              *)
(*                                                                         *)
(* ctd.CreatedAccountMap and ctd.DeletedAccountMap are Go maps: a range    *)
(* over them visits the accounts in an order that differs from run to run. *)
(* The kernel calls ProcessContext from Process, and what follows it in    *)
(* Process (ProcessReward, StoreData) can fail after the rank table has    *)
(* changed.                                                                *)
(***************************************************************************)
\* ProcessContext is called until the consensus height reached MaxPOBlocks
MaxPOBlocks == 2
\* common.Address values; the formulation account at address a carries the
\* key hash a
POAddresses == {1, 2, 3}
PONone == [a \in POAddresses |-> NoKey]
\* the header hashes of the blocks
POHashes == {10, 30}

\* the orders in which a range over a map with the keys S can visit them
RECURSIVE Orders(_)
Orders(S) ==
    IF S = {} THEN {<<>>}
    ELSE UNION {{<<a>> \o o : o \in Orders(S \ {a})} : a \in S}

\* the loop over ctd.CreatedAccountMap, visiting the accounts in the given
\* order; the first error ends the call
RECURSIVE addCreatedIn(_, _, _, _)
addCreatedIn(cs, created, order, phase) ==
    IF order = <<>> \/ cs.err # "nil" THEN cs
    ELSE LET a == Head(order)
         IN addCreatedIn(addRank(cs, NewRank(a, created[a], phase, DoubleHash(a))),
                         created, Tail(order), phase)

\* the loop over ctd.DeletedAccountMap in the given order
RECURSIVE removeDeletedIn(_, _)
removeDeletedIn(cs, order) ==
    IF order = <<>> THEN cs
    ELSE removeDeletedIn(removeRank(cs, Head(order)), Tail(order))

\* Consensus.ProcessContext with the orders of its two range loops
ProcessContextIn(cs, ctd, HeaderHash, TimeoutCount, co, do) ==
    LET f == forwardCandidates(cs.candidates, cs.height, TimeoutCount, HeaderHash)
        moved == [cs EXCEPT !.candidates = f.candidates, !.height = f.height]
        phase == largestPhase(moved.candidates) + 1
        added == addCreatedIn(moved, ctd.created, co, phase)
    IN IF f.err # "nil" THEN [cs EXCEPT !.err = f.err]
       ELSE IF added.err # "nil" THEN added
       ELSE removeDeletedIn(added, do)

POCreated(ctd) == {a \in POAddresses : ctd.created[a] # NoKey}

\* every Consensus object one ProcessContext call can leave behind
Outcomes(cs, ctd, HeaderHash, TimeoutCount) ==
    {ProcessContextIn(cs, ctd, HeaderHash, TimeoutCount, co, do) :
        co \in Orders(POCreated(ctd)), do \in Orders(ctd.deleted)}

\* the context data of a block executed over the account rows: it creates
\* accounts at addresses that have no row and deletes accounts that have one
POContextDatas(rows) ==
    {[created |-> [a \in POAddresses |-> IF a \in C THEN a ELSE NoKey],
      deleted |-> D] :
        C \in SUBSET {a \in POAddresses : rows[a] = NoKey},
        D \in SUBSET {a \in POAddresses : rows[a] # NoKey}}

POApply(rows, ctd) ==
    [a \in POAddresses |->
        IF a \in ctd.deleted THEN NoKey
        ELSE IF ctd.created[a] # NoKey THEN ctd.created[a]
        ELSE rows[a]]

\* Kernel.Process from its ProcessContext call on: the rank table is changed
\* first; the rows are written when ProcessContext, ProcessReward and
\* StoreData all succeeded (stored)
POProcess(ctd, HeaderHash, TimeoutCount, stored) ==
    LET cs == [poEngine EXCEPT !.err = "nil"]
    IN /\ poOutcomes' = Outcomes(cs, ctd, HeaderHash, TimeoutCount)
       /\ poEngine' \in poOutcomes'
       /\ poRows' = IF poEngine'.err = "nil" /\ stored
                    THEN POApply(poRows, ctd) ELSE poRows
       /\ UNCHANGED poOthers

\* NewKernel on an empty store: the genesis creates formulation accounts
POInit ==
    \E S \in (SUBSET {1, 2}) \ {{}} :
        LET g == [created |-> [a \in POAddresses |-> IF a \in S THEN a ELSE NoKey],
                  deleted |-> {}]
            cs == [candidates |-> <<>>, rankMap |-> PONone, height |-> 0,
                   err |-> "nil"]
        IN /\ poEngine = addCreatedIn(cs, g.created, CHOOSE o \in Orders(S) : TRUE, 1)
           /\ poRows = POApply(PONone, g)
           /\ poOutcomes = {}

CallPOProcess ==
    /\ poEngine.height < MaxPOBlocks
    /\ \E ctd \in POContextDatas(poRows), H \in POHashes,
          t \in 0..Len(poEngine.candidates), stored \in BOOLEAN :
           /\ \A k \in 1..Len(poEngine.candidates) :
                 poEngine.candidates[k].hashSpace # H
           /\ POProcess(ctd, H, t, stored)

InitPO == POAlone /\ POInit
NextPO == CallPOProcess
SpecPO == InitPO /\ [][NextPO]_vars

\* the ranks of a Consensus object that the order of the maps must not touch
RankTable(cs) == <<cs.candidates, cs.height>>

\* C31: whatever the order in which the created and the deleted account map
\* are ranged over, a ProcessContext call with the same context data, header
\* hash and timeout count on the same Consensus object leaves the same
\* candidate order, phases, hash-spaces and height
C31_ProcessContextIsDeterministic ==
    \A a, b \in poOutcomes : RankTable(a) = RankTable(b)

(***************************************************************************)
(* TestNetRewarder: buildSaveData and LoadFromSaveData                     *)
(*                                                                         *)
(* The save data is a run of fixed-width fields; a field of it is one      *)
(* element of the sequence.  A read past the end of the data is an error.  *)
(***************************************************************************)
RWAddresses == {1, 2}
\* amount.Amount values
RWAmounts == {5, 6}
\* rd.LastPaidHeight values
RWHeights == {0, 3}
\* map[common.Address]*amount.Amount values
PowerMaps ==
    UNION {[S -> RWAmounts] : S \in SUBSET RWAddresses}
\* the inner maps of rd.StakingPowerMap hold at most one (address, amount)
StakingMaps ==
    {m \in PowerMaps : Cardinality(DOMAIN m) <= 1}
StakingPowerMaps ==
    UNION {[S -> StakingMaps] : S \in SUBSET RWAddresses}

\* the fields "for addr, PowerSum := range PowerMap" writes, in the order o
RECURSIVE WritePowerMap(_, _)
WritePowerMap(m, o) ==
    IF o = <<>> THEN <<>>
    ELSE <<Head(o), m[Head(o)]>> \o WritePowerMap(m, Tail(o))

\* the blobs an inner map can be written as, one for every order of the range
PowerMapData(m) == {WritePowerMap(m, o) : o \in Orders(DOMAIN m)}

\* the fields "for addr, PowerMap := range rd.StakingPowerMap" writes, in the
\* order o, each inner map in a range order of its own
RECURSIVE StakingData(_, _)
StakingData(sm, o) ==
    IF o = <<>> THEN {<<>>}
    ELSE {<<Head(o), Cardinality(DOMAIN sm[Head(o)])>> \o inner \o rest :
            inner \in PowerMapData(sm[Head(o)]),
            rest \in StakingData(sm, Tail(o))}

\* TestNetRewarder.buildSaveData: every blob it can return
buildSaveData(rd) ==
    {<<rd.LastPaidHeight, Cardinality(DOMAIN rd.PowerMap)>> \o pm
        \o <<Cardinality(DOMAIN rd.StakingPowerMap)>> \o sp :
        pm \in PowerMapData(rd.PowerMap),
        sp \in UNION {StakingData(rd.StakingPowerMap, o) :
                        o \in Orders(DOMAIN rd.StakingPowerMap)}}

NoMap == <<>>
\* put (key, value) into a map
Put(m, k, v) == [x \in DOMAIN m \cup {k} |-> IF x = k THEN v ELSE m[x]]

\* "for i := 0; i < int(Len); i++" over (address, amount) fields from pos on
RECURSIVE ReadPowerMap(_, _, _, _, _)
ReadPowerMap(blob, pos, i, Length, m) ==
    IF i >= Length THEN [err |-> "nil", pos |-> pos, map |-> m]
    ELSE IF pos + 1 > Len(blob) THEN [err |-> "EOF", pos |-> pos, map |-> m]
    ELSE ReadPowerMap(blob, pos + 2, i + 1, Length,
                      Put(m, blob[pos], blob[pos + 1]))

\* "for j := 0; j < int(Len2); i++": j stays what it is, so once entered the
\* loop reads (address, amount) fields until a read fails
RECURSIVE ReadStakingMap(_, _, _, _, _)
ReadStakingMap(blob, pos, j, Len2, m) ==
    IF j >= Len2 THEN [err |-> "nil", pos |-> pos, map |-> m]
    ELSE IF pos + 1 > Len(blob) THEN [err |-> "EOF", pos |-> pos, map |-> m]
    ELSE ReadStakingMap(blob, pos + 2, j, Len2,
                        Put(m, blob[pos], blob[pos + 1]))

\* the outer loop over rd.StakingPowerMap; the outer counter matters only
\* while no inner loop was entered
RECURSIVE ReadStakingPowerMap(_, _, _, _, _)
ReadStakingPowerMap(blob, pos, i, Length, sm) ==
    IF i >= Length THEN [err |-> "nil", pos |-> pos, map |-> sm]
    ELSE IF pos + 1 > Len(blob) THEN [err |-> "EOF", pos |-> pos, map |-> sm]
    ELSE LET inner == ReadStakingMap(blob, pos + 2, 0, blob[pos + 1], NoMap)
         IN IF inner.err # "nil"
            THEN [err |-> inner.err, pos |-> inner.pos, map |-> sm]
            ELSE ReadStakingPowerMap(blob, inner.pos, i + 1, Length,
                                     Put(sm, blob[pos], inner.map))

\* NewTestNetRewarder
NewTestNetRewarder ==
    [LastPaidHeight |-> 0, PowerMap |-> NoMap, StakingPowerMap |-> NoMap]

\* TestNetRewarder.LoadFromSaveData on a new rewarder: the error and the
\* fields as the call leaves them
LoadFromSaveData(blob) ==
    LET rd == NewTestNetRewarder
    IN IF Len(blob) < 1 THEN [err |-> "EOF", rd |-> rd]
       ELSE LET rd1 == [rd EXCEPT !.LastPaidHeight = blob[1]]
            IN IF Len(blob) < 2 THEN [err |-> "EOF", rd |-> rd1]
               ELSE LET pm == ReadPowerMap(blob, 3, 0, blob[2], NoMap)
                        rd2 == [rd1 EXCEPT !.PowerMap = pm.map]
                    IN IF pm.err # "nil" THEN [err |-> pm.err, rd |-> rd2]
                       ELSE IF Len(blob) < pm.pos THEN [err |-> "EOF", rd |-> rd2]
                       ELSE LET sp == ReadStakingPowerMap(blob, pm.pos + 1, 0,
                                                          blob[pm.pos], NoMap)
                            IN [err |-> sp.err,
                                rd |-> [rd2 EXCEPT !.StakingPowerMap = sp.map]]

Rewarders ==
    {[LastPaidHeight |-> h, PowerMap |-> pm, StakingPowerMap |-> sp] :
        h \in RWHeights, pm \in PowerMaps, sp \in StakingPowerMaps}

RWInit ==
    /\ rwSaved \in Rewarders
    /\ rwBlob = <<>>
    /\ rwLoaded = <<>>

\* ProcessReward builds the save data of the rewarder
CallBuildSaveData ==
    /\ rwBlob = <<>>
    /\ rwBlob' \in buildSaveData(rwSaved)
    /\ UNCHANGED <<rwSaved, rwLoaded, rwOthers>>

\* a node that starts with this save data loads it
CallLoadFromSaveData ==
    /\ rwBlob # <<>> /\ rwLoaded = <<>>
    /\ rwLoaded' = LoadFromSaveData(rwBlob)
    /\ UNCHANGED <<rwSaved, rwBlob, rwOthers>>

InitRW == RWAlone /\ RWInit
NextRW == CallBuildSaveData \/ CallLoadFromSaveData
SpecRW == InitRW /\ [][NextRW]_vars

\* C33: LoadFromSaveData applied to the data buildSaveData produced returns
\* without error and restores LastPaidHeight, PowerMap and StakingPowerMap
\* exactly, also when an inner staking power map is not empty
C33_LoadRestoresSavedState ==
    rwLoaded # <<>> => rwLoaded.err = "nil" /\ rwLoaded.rd = rwSaved

(***************************************************************************)
(* ProcessContext and the timeout count                                    *)
(***************************************************************************)
\* C32: a ProcessContext call fails with ErrExceedCandidateCount exactly when
\* its timeout count is not smaller than the number of candidates, and then
\* the candidate list, the rank map and the height are what they were
C32_ExceedCandidateCount ==
    [][\A ctd \in ContextDatas, H \in HeaderHashes,
          t \in 0..(Len(candidates) + 1) :
           CallProcessContext(ctd, H, t) =>
               /\ (last'.err = "ErrExceedCandidateCount") <=> (t >= Len(candidates))
               /\ t >= Len(candidates) =>
                      UNCHANGED <<candidates, rankMap, height>>]_vars

\* a call was refused for its timeout count
C32_Witness ==
    /\ last.op = "ProcessContext" /\ last.err = "ErrExceedCandidateCount"
    /\ Len(candidates) > 1

(***************************************************************************)
(* AddTransaction and the marks of the working map                         *)
(***************************************************************************)
\* C34: a transaction hash is marked in the working map only while an
\* AddTransaction call for it is in flight: whenever a call has returned,
\* with success or with an error, its mark is gone
C34_MarkedOnlyInFlight ==
    \A tx \in txWorkingMap :
        \E p \in Callers :
            Running(call[p]) /\ call[p].pc # "mark" /\ call[p].tx = tx

(***************************************************************************)
(* ObserverMesh: the peer maps                                             *)
(*                                                                         *)
(* server runs one goroutine for every accepted connection; client does    *)
(* the same statements on clientPeerMap for a connection it dialled.  One  *)
(* map is modelled.                                                        *)
(***************************************************************************)
\* the connections accepted, in the order of acceptance
MaxOMPeers == 3
OMPeers == 1..MaxOMPeers
\* the public hashes of the other observers in NetAddressMap
OMKeys == {1, 2}
NoPeer == 0
NoConn == [pubhash |-> 0, pc |-> "none", old |-> NoPeer, open |-> FALSE]

\* ms.Lock(); old, has := ms.serverPeerMap[pubhash];
\* ms.serverPeerMap[pubhash] = p; ms.Unlock()
Register(p, pubhash) ==
    /\ omPeer[p].pc = "none"
    /\ \A q \in OMPeers : q < p => omPeer[q].pc # "none"
    /\ omPeer' = [omPeer EXCEPT ![p] = [pubhash |-> pubhash, pc |-> "registered",
                                        old |-> omPeerMap[pubhash],
                                        open |-> TRUE]]
    /\ omPeerMap' = [omPeerMap EXCEPT ![pubhash] = p]

\* ObserverMesh.RemovePeerInMap: delete(peerMap, p.pubhash); p.conn.Close()
RemovePeerInMap(p, peerMap, peers) ==
    [peerMap |-> [peerMap EXCEPT ![peers[p].pubhash] = NoPeer],
     peers |-> [peers EXCEPT ![p].open = FALSE]]

\* if has { ms.RemovePeerInMap(old, ms.serverPeerMap) }; the goroutine then
\* enters handleConnection
ReplaceOld(p) ==
    /\ omPeer[p].pc = "registered"
    /\ LET r == IF omPeer[p].old # NoPeer
                THEN RemovePeerInMap(omPeer[p].old, omPeerMap, omPeer)
                ELSE [peerMap |-> omPeerMap, peers |-> omPeer]
       IN /\ omPeerMap' = r.peerMap
          /\ omPeer' = [r.peers EXCEPT ![p].pc = "handling"]

\* handleConnection returns (ReadMessageData failed: the conn was closed here
\* or by the other side), the deferred RemovePeerInMap(p, ms.serverPeerMap)
\* and conn.Close() run
HandlerExits(p) ==
    /\ omPeer[p].pc = "handling"
    /\ LET r == RemovePeerInMap(p, omPeerMap, omPeer)
       IN /\ omPeerMap' = r.peerMap
          /\ omPeer' = [r.peers EXCEPT ![p].pc = "exited"]

\* ObserverMesh.RemovePeer(p), called when a send to p or a ping failed: the
\* entry under p.pubhash is deleted and the peer found there is closed
RemovePeer(p) ==
    /\ omPeer[p].pc = "handling"
    /\ LET ps == omPeerMap[omPeer[p].pubhash]
       IN /\ omPeerMap' = [omPeerMap EXCEPT ![omPeer[p].pubhash] = NoPeer]
          /\ omPeer' = IF ps # NoPeer THEN [omPeer EXCEPT ![ps].open = FALSE]
                       ELSE omPeer

\* NewObserverMesh
OMInit ==
    /\ omPeerMap = [k \in OMKeys |-> NoPeer]
    /\ omPeer = [p \in OMPeers |-> NoConn]

StepRegister ==
    (\E p \in OMPeers, k \in OMKeys : Register(p, k)) /\ UNCHANGED omOthers
StepReplaceOld == (\E p \in OMPeers : ReplaceOld(p)) /\ UNCHANGED omOthers
\* a handler whose conn is closed reads an error; the other side can close
\* its end at any time
StepHandlerExits == (\E p \in OMPeers : HandlerExits(p)) /\ UNCHANGED omOthers
\* a send fails only on a conn that was closed
StepRemovePeer ==
    /\ \E p \in OMPeers : ~omPeer[p].open /\ RemovePeer(p)
    /\ UNCHANGED omOthers

InitOM == OMAlone /\ OMInit
NextOM == StepRegister \/ StepReplaceOld \/ StepHandlerExits \/ StepRemovePeer
SpecOM == InitOM /\ [][NextOM]_vars

\* the connection registered last for a public hash
Newest(p) ==
    /\ omPeer[p].pc # "none"
    /\ \A q \in OMPeers :
          (q > p /\ omPeer[q].pc # "none") => omPeer[q].pubhash # omPeer[p].pubhash

\* C35: a connection whose reader runs on an open conn, and which no newer
\* connection for its public hash has replaced, is the peer the map holds
\* under that public hash: removing an older peer does not remove it
C35_LivePeerStaysInMap ==
    \A p \in OMPeers :
        (Newest(p) /\ omPeer[p].pc = "handling" /\ omPeer[p].open) =>
            omPeerMap[omPeer[p].pubhash] = p

(***************************************************************************)
(* The formulator a header names                                           *)
(***************************************************************************)
\* the header names the account of the rank at TopRank(header.timeout)
NamesTopRank(hdr) ==
    /\ hdr.timeout < Len(candidates)
    /\ hdr.formulator = TopRank(candidates, hdr.timeout).rank.Address

\* C36: a block that Validate accepts or Process commits names as its
\* formulator the address of the rank at TopRank(header.timeout_count), in the
\* rank table as the call found it
C36_FormulatorIsTopRank ==
    [][\A cd \in Inputs :
          /\ (Validate(cd) /\ last'.err = "nil") => NamesTopRank(cd.hdr)
          /\ (Process(cd, ctxSlot) /\ last'.err = "nil") =>
                 NamesTopRank(cd.hdr)]_vars

(***************************************************************************)
(* Revoke and the Heritor                                                  *)
(*                                                                         *)
(* The blocks of SpecLB, with the Revoke transaction carrying its Heritor  *)
(* field.  Execute reads tx.From() only.                                   *)
(***************************************************************************)
\* Revoke transactions: From_, Heritor, and the unlock delay of the policy
Revokes ==
    {tx \in [From : LBAddresses, Heritor : LBAddresses, delay : LBDelays] :
        tx.From # tx.Heritor}

\* what the execute function of Revoke does with the transaction: the locked
\* balance is added for heritorAcc.Address(), and heritorAcc is
\* ctx.Account(tx.From())
RevokeBody(tx) == [op |-> "Revoke", from |-> tx.From, delay |-> tx.delay]

\* a block with one Revoke transaction is processed
RVRevoke(tx) ==
    /\ LBProcess(RevokeBody(tx))
    /\ rvRevoked' = rvRevoked \cup
                       {[From |-> tx.From, Heritor |-> tx.Heritor,
                         UnlockHeight |-> lbHeight + 1 + tx.delay]}

\* a block with no Revoke transaction is processed
RVProcess(body) ==
    /\ body.op # "Revoke"
    /\ LBProcess(body)
    /\ UNCHANGED rvRevoked

\* what a block of this specification leaves alone
rvRest == <<coreVars, stVars, nmVars, atVars, gbVars, eqVars, vrVars, clVars,
            pgVars, poVars, rwVars, omVars, cfVars, vbVars, brVars>>
CallRVRevoke == (\E tx \in Revokes : RVRevoke(tx)) /\ UNCHANGED rvRest
CallRVProcess == (\E body \in LBBodies : RVProcess(body)) /\ UNCHANGED rvRest

InitRV ==
    /\ CoreIdle /\ LBInit /\ STIdle /\ NMIdle /\ ATIdle /\ GBRest
    /\ EQIdle /\ VRIdle /\ CLIdle /\ PGIdle
    /\ POIdle /\ RWIdle /\ OMIdle /\ CFIdle /\ VBIdle /\ BRIdle
    /\ rvRevoked = {}
NextRV == CallRVRevoke \/ CallRVProcess
SpecRV == InitRV /\ [][NextRV]_vars

\* C37: the funds of a revoked formulation account are locked for the Heritor
\* the transaction names, and the block at the unlock height credits them to
\* an account that exists
C37_RevokedFundsGoToHeritor ==
    \A r \in rvRevoked :
        /\ lbHeight < r.UnlockHeight =>
               \E l \in lbLocked : /\ l.Address = r.Heritor
                                   /\ l.UnlockHeight = r.UnlockHeight
        /\ (lbHeight = r.UnlockHeight /\ lbLast.op = "Process") =>
               \E l \in lbLast.credited : l.UnlockHeight = r.UnlockHeight

(***************************************************************************)
(* Kernel.CheckFork and the stored chain                                   *)
(*                                                                         *)
(* Blocks are generated on the present chain and committed by Process;     *)
(* CheckFork is handed chain data of heights the store holds.              *)
(***************************************************************************)
\* a kernel with no call in progress
CFReady == last.op \in {"idle", "ApplyGenesis"}

\* a block built on the present chain is committed
CFProcess ==
    /\ Ready /\ storeHeight < MaxCommits
    /\ \E ctd \in Bodies, t \in 0..(Len(candidates) - 1) :
          Process(Generated(t, ctd, NextHash), NoCtx)

\* what CheckFork is handed: the header and signatures of a committed block,
\* or another header of that height with observer signatures of its own
CFDatas ==
    Stored \cup
    {d \in {[cd EXCEPT !.hdr.hash = H, !.obs = o] :
                cd \in Stored, H \in HeaderHashes, o \in ObserverSignatures} :
        d.hdr.hash # storeData[d.hdr.height].hdr.hash}

\* Kernel.CheckFork(ch, sigs) on an open kernel
CheckForkCall(cd) ==
    /\ cfCall' = [cd |-> cd, err |-> CheckFork(<<cd.signer>> \o cd.obs)]
    /\ UNCHANGED <<earlyVars, poVars, rwVars, omVars, rvVars, vbVars, brVars>>

CallCheckFork == CFReady /\ \E cd \in CFDatas : CheckForkCall(cd)

InitCF == Init
NextCF == CFProcess \/ Return \/ CallCheckFork
SpecCF == InitCF /\ [][NextCF]_vars

\* the store holds this very block at the height of its header
Committed(cd) == storeData[cd.hdr.height] = cd
\* the store holds another header at that height
Conflicts(cd) ==
    /\ storeData[cd.hdr.height] # NoData
    /\ storeData[cd.hdr.height].hdr.hash # cd.hdr.hash

\* C38: CheckFork returns nil for the header and signatures of the block the
\* store holds at that height, and ErrForkDetected for another header of that
\* height that carries a valid observer majority
C38_ForkOnlyOnConflict ==
    cfCall # <<>> =>
        /\ Committed(cfCall.cd) => cfCall.err = "nil"
        /\ (/\ Conflicts(cfCall.cd)
            /\ 1 + Len(cfCall.cd.obs) = SignatureCount
            /\ ValidateSignaturesMajority(cfCall.cd.obs) = "nil") =>
               cfCall.err = "ErrForkDetected"

(***************************************************************************)
(* Kernel.validateBlockBody: the transactions of a block are split among   *)
(* workers                                                                 *)
(***************************************************************************)
\* below this many transactions one worker does all
ParallelThreshold == 1000
\* len(b.Body.Transactions)
TxCounts == {0, 1, 999, 1000, 1001, 1023, 1024, 1031}
\* runtime.NumCPU()
CpuCounts == {1, 2, 3, 4, 8, 16, 32, 64}

\* cpuCnt after "if len(b.Body.Transactions) < 1000 { cpuCnt = 1 }"
Workers(n, NumCPU) == IF n < ParallelThreshold THEN 1 ELSE NumCPU

\* txCnt: n / cpuCnt, one more when the division leaves a rest
ChunkSize(n, cpuCnt) ==
    IF n % cpuCnt # 0 THEN n \div cpuCnt + 1 ELSE n \div cpuCnt

\* lastCnt of the i-th turn of the loop
LastCnt(n, txCnt, i) == IF (i + 1) * txCnt > n THEN n ELSE (i + 1) * txCnt

\* the loop "for i := 0; i < cpuCnt; i++" from turn i on, with the slices
\* handed out so far: b.Body.Transactions[i*txCnt:lastCnt] panics when its
\* low bound is above its high bound
RECURSIVE Spawn(_, _, _, _, _)
Spawn(n, cpuCnt, txCnt, i, chunks) ==
    IF i >= cpuCnt THEN [panic |-> FALSE, chunks |-> chunks]
    ELSE IF i * txCnt > LastCnt(n, txCnt, i)
    THEN [panic |-> TRUE, chunks |-> chunks]
    ELSE Spawn(n, cpuCnt, txCnt, i + 1,
               Append(chunks, [sidx |-> i * txCnt,
                               last |-> LastCnt(n, txCnt, i)]))

\* Kernel.validateBlockBody up to wg.Wait()
validateBlockBody(n, NumCPU) ==
    LET cpuCnt == Workers(n, NumCPU)
    IN Spawn(n, cpuCnt, ChunkSize(n, cpuCnt), 0, <<>>)

VBInit ==
    /\ vbArgs \in [n : TxCounts, NumCPU : CpuCounts]
    /\ vbChunks = <<>>

CallValidateBlockBody ==
    /\ vbChunks = <<>>
    /\ vbChunks' = validateBlockBody(vbArgs.n, vbArgs.NumCPU)
    /\ UNCHANGED <<vbArgs, vbOthers>>

InitVB == VBAlone /\ VBInit
NextVB == CallValidateBlockBody
SpecVB == InitVB /\ [][NextVB]_vars

\* the workers whose slice holds the transaction with index idx
Visitors(idx) ==
    {w \in 1..Len(vbChunks.chunks) :
        vbChunks.chunks[w].sidx <= idx /\ idx < vbChunks.chunks[w].last}

\* C39: every worker's slice has bounds with start <= end <= n, and the
\* workers together visit every transaction index 0..n-1 exactly once
C39_ChunksCoverEachIndexOnce ==
    vbChunks # <<>> =>
        /\ ~vbChunks.panic
        /\ \A w \in 1..Len(vbChunks.chunks) :
              /\ vbChunks.chunks[w].sidx <= vbChunks.chunks[w].last
              /\ vbChunks.chunks[w].last <= vbArgs.n
        /\ \A idx \in 0..(vbArgs.n - 1) : Cardinality(Visitors(idx)) = 1

(***************************************************************************)
(* VoteRound: the block rounds                                             *)
(*                                                                         *)
(* NewVoteRound and CloseBlockRound are the observer's; the steps that     *)
(* call them follow the description of the vote phases.                    *)
(***************************************************************************)
\* Config.MaxBlocksPerFormulator is between 1 and MaxBRBlocks
MaxBRBlocks == 3
\* blocks are processed until the store height reached MaxBRHeight
MaxBRHeight == 4
\* a VoteRound restarts its round votes up to MaxBRFails times
MaxBRFails == 2

\* NewBlockRound
NewBlockRound(TargetHeight) == [TargetHeight |-> TargetHeight]

\* NewVoteRound(TargetHeight, MaxBlocksPerFormulator), the block rounds
NewBlockRounds(TargetHeight, MaxBlocksPerFormulator) ==
    [RoundState |-> RoundVoteState,
     VoteTargetHeight |-> TargetHeight,
     VoteFailCount |-> 0,
     BlockRounds |-> [i \in 1..MaxBlocksPerFormulator |->
                         NewBlockRound(TargetHeight + (i - 1))],
     ClosedBlockRounds |-> <<>>]

\* a CloseBlockRound that leaves the head in BlockRounds
CloseBlockRoundKeepHead(vr) ==
    [vr EXCEPT !.ClosedBlockRounds = Append(@, vr.BlockRounds[1])]

\* VoteRound.CloseBlockRound; vr.BlockRounds[0] of an empty slice panics
CloseBlockRound(vr) ==
    [vr EXCEPT !.ClosedBlockRounds = Append(@, vr.BlockRounds[1]),
               !.BlockRounds = Tail(@)]

\* VoteRound.BlockRoundCount
BlockRoundCount(vr) == Len(vr.BlockRounds)

BRDone(op) == [op |-> op, panic |-> FALSE]

\* the round votes, then the round vote acks, lead to the next state
BRAdvance ==
    /\ brRound.RoundState \in {RoundVoteState, RoundVoteAckState}
    /\ brRound' = [brRound EXCEPT !.RoundState = @ + 1]
    /\ brLast' = BRDone("Advance")
    /\ UNCHANGED <<brConfig, brHeight>>

\* the block votes of the head block round reached the quorum: the block is
\* processed, its block round is closed, and when no block round is left a
\* new VoteRound starts at store.height + 1
BRBlockCommitted ==
    /\ brRound.RoundState = BlockVoteState
    /\ brHeight < MaxBRHeight
    /\ brHeight' = brHeight + 1
    /\ IF BlockRoundCount(brRound) = 0
       THEN /\ brLast' = [op |-> "CloseBlockRound", panic |-> TRUE]
            /\ UNCHANGED brRound
       ELSE LET vr == CloseBlockRound(brRound)
            IN IF BlockRoundCount(vr) = 0
               THEN /\ brRound' = NewBlockRounds(brHeight' + 1, brConfig)
                    /\ brLast' = BRDone("NewVoteRound")
               ELSE /\ brRound' = vr
                    /\ brLast' = BRDone("CloseBlockRound")
    /\ UNCHANGED brConfig

\* the round vote acks disagree or do not arrive in time: VoteFailCount is
\* incremented and the round votes start again
BRFail ==
    /\ brRound.RoundState = RoundVoteAckState
    /\ brRound.VoteFailCount < MaxBRFails
    /\ brRound' = [brRound EXCEPT !.RoundState = RoundVoteState,
                                  !.VoteFailCount = @ + 1]
    /\ brLast' = BRDone("Fail")
    /\ UNCHANGED <<brConfig, brHeight>>

\* the round timed out or failed too often: a new VoteRound starts at
\* store.height + 1
BRTimeout ==
    /\ brRound' = NewBlockRounds(brHeight + 1, brConfig)
    /\ brLast' = BRDone("NewVoteRound")
    /\ UNCHANGED <<brConfig, brHeight>>

\* the observer starts on an empty chain
BRInit ==
    /\ brConfig \in 1..MaxBRBlocks
    /\ brHeight = 0
    /\ brRound = NewBlockRounds(1, brConfig)
    /\ brLast = BRDone("NewVoteRound")

StepAdvance == BRAdvance /\ UNCHANGED brOthers
StepBlockCommitted == BRBlockCommitted /\ UNCHANGED brOthers
StepFail == BRFail /\ UNCHANGED brOthers
StepTimeout == BRTimeout /\ UNCHANGED brOthers

InitBR == BRAlone /\ BRInit
NextBR == StepAdvance \/ StepBlockCommitted \/ StepFail \/ StepTimeout
SpecBR == InitBR /\ [][NextBR]_vars

\* the target heights of block rounds
TargetHeights(rounds) == [i \in 1..Len(rounds) |-> rounds[i].TargetHeight]

=============================================================================
